---- MODULE Spec2Model ----
(***************************************************************************)
(* Conversation memory (src/lib/memory.js) and context cleaning            *)
(* (src/lib/contextManager.js) of the CerosAI WhatsApp bot.                *)
(*                                                                         *)
(* Strings are run-length encoded: a string is a sequence of runs          *)
(* [ch |-> c, n |-> k] (k >= 1, adjacent runs differ in ch), so that a     *)
(* message body of several hundred kilobytes is a value of the model.      *)
(* File writes are assumed to succeed (no I/O error is injected).          *)
(***************************************************************************)
EXTENDS Integers, Sequences, FiniteSets, TLC

\* ------------------------------------------------------------------ bounds
\* calls that change the state: valid pushes, timer saves, loads
MaxCalls == 3

\* ------------------------------------------------------- program constants
DefaultMaxMessages == 50
AutoSaveEvery == 10
CompactLimit == 30
SizeCeiling == 10 * 1024 * 1024

\* ----------------------------------------------------------------- strings
R(c, k) == [ch |-> c, n |-> k]

Whitespace == {" "}

RECURSIVE StrLen(_)
StrLen(s) == IF s = <<>> THEN 0 ELSE Head(s).n + StrLen(Tail(s))

RECURSIVE TrimStart(_)
TrimStart(s) ==
  IF s = <<>> THEN <<>>
  ELSE IF Head(s).ch \in Whitespace THEN TrimStart(Tail(s)) ELSE s

RECURSIVE TrimEnd(_)
TrimEnd(s) ==
  IF s = <<>> THEN <<>>
  ELSE IF s[Len(s)].ch \in Whitespace THEN TrimEnd(SubSeq(s, 1, Len(s) - 1)) ELSE s

\* String.prototype.trim
Trim(s) == TrimEnd(TrimStart(s))

\* String.prototype.slice(0, k)
RECURSIVE StrTake(_, _)
StrTake(s, k) ==
  IF s = <<>> \/ k <= 0 THEN <<>>
  ELSE IF Head(s).n <= k THEN <<Head(s)>> \o StrTake(Tail(s), k - Head(s).n)
       ELSE <<R(Head(s).ch, k)>>

\* the string as a sequence of characters
RECURSIVE Chars(_)
Chars(s) ==
  IF s = <<>> THEN <<>>
  ELSE [i \in 1..Head(s).n |-> Head(s).ch] \o Chars(Tail(s))

\* --------------------------------------------------------------- JS values
Undefined == [t |-> "undefined", s |-> <<>>]
Str(s) == [t |-> "string", s |-> s]

\* !v for a value that is undefined or a string
Falsy(v) == v.t = "undefined" \/ (v.t = "string" /\ v.s = <<>>)

\* role names as strings
sUser == <<R("u", 1), R("s", 1), R("e", 1), R("r", 1)>>
sAssistant == <<R("a", 1), R("s", 2), R("i", 1), R("s", 1), R("t", 1), R("a", 1), R("n", 1), R("t", 1)>>
sSystem == <<R("s", 1), R("y", 1), R("s", 1), R("t", 1), R("e", 1), R("m", 1)>>
sAdmin == <<R("a", 1), R("d", 1), R("m", 1), R("i", 1), R("n", 1)>>

ValidRoles == {sUser, sAssistant, sSystem}

\* ---------------------------------------------------------------- messages
estimateTokenCount(text) == (StrLen(text) + 3) \div 4

Message(role, content, ts) ==
  [role |-> role, content |-> content, timestamp |-> ts,
   tokens |-> estimateTokenCount(content)]

\* Array.prototype.slice(-k) for an integer k >= 1
LastN(seq, k) == IF Len(seq) <= k THEN seq ELSE SubSeq(seq, Len(seq) - k + 1, Len(seq))

\* ------------------------------------------------------ JSON text of a file
\* A file is [kind, entries]: kind "ENOENT" (no file), "syntaxerror" (text
\* JSON.parse rejects), "scalar" (JSON that is not an object), "object".
NoFile == [kind |-> "ENOENT", entries |-> <<>>]
BadText == [kind |-> "syntaxerror", entries |-> <<>>]
ScalarText == [kind |-> "scalar", entries |-> <<>>]

RECURSIVE SetToSeq(_)
SetToSeq(S) ==
  IF S = {} THEN <<>>
  ELSE LET x == CHOOSE y \in S : TRUE IN <<x>> \o SetToSeq(S \ {x})

JsonItem(m) ==
  [isObject |-> TRUE, roleT |-> "string", role |-> m.role,
   contentT |-> "string", content |-> m.content,
   timestamp |-> m.timestamp, tokens |-> m.tokens]

JsonEntry(k, msgs) ==
  [key |-> k, isArray |-> TRUE, items |-> [i \in 1..Len(msgs) |-> JsonItem(msgs[i])]]

\* JSON.stringify(cache, null, 2)
Serialize(c) ==
  LET keys == SetToSeq(DOMAIN c)
  IN [kind |-> "object",
      entries |-> [i \in 1..Len(keys) |-> JsonEntry(keys[i], c[keys[i]])]]

RECURSIVE SumItems(_)
SumItems(items) ==
  IF items = <<>> THEN 0
  ELSE StrLen(Head(items).content) + StrLen(Head(items).role) + SumItems(Tail(items))

RECURSIVE SumEntries(_)
SumEntries(entries) ==
  IF entries = <<>> THEN 0
  ELSE StrLen(Head(entries).key) + SumItems(Head(entries).items) + SumEntries(Tail(entries))

\* data.length: the characters of the keys, roles and contents (punctuation,
\* timestamps and token counts add a few dozen characters per message)
JsonLength(text) == SumEntries(text.entries)

ParseItem(it) ==
  [role |-> it.role, content |-> it.content, timestamp |-> it.timestamp,
   tokens |-> it.tokens]

\* JSON.parse of an "object" text
ParseObject(text) ==
  LET idx == 1..Len(text.entries)
      keys == {text.entries[i].key : i \in idx}
  IN [k \in keys |->
        LET e == text.entries[CHOOSE i \in idx : text.entries[i].key = k]
        IN [j \in 1..Len(e.items) |-> ParseItem(e.items[j])]]

\* the validation with the Array.isArray test negated
IsValidStructureNotArray(text) ==
  \A i \in 1..Len(text.entries) :
    /\ ~text.entries[i].isArray
    /\ \A j \in 1..Len(text.entries[i].items) :
         LET it == text.entries[i].items[j]
         IN it.isObject /\ it.roleT = "string" /\ it.contentT = "string"

IsValidStructure(text) ==
  \A i \in 1..Len(text.entries) :
    /\ text.entries[i].isArray
    /\ \A j \in 1..Len(text.entries[i].items) :
         LET it == text.entries[i].items[j]
         IN it.isObject /\ it.roleT = "string" /\ it.contentT = "string"

EmptyCache == [k \in {} |-> <<>>]

\* ------------------------------------------------------------ input values
BigLen == 345000

kC1 == <<R("c", 1), R("1", 1)>>
kC1Padded == <<R(" ", 1), R("c", 1), R("1", 1), R(" ", 1)>>
kC2 == <<R("c", 1), R("2", 1)>>
sBlank == <<R(" ", 2)>>
sHi == <<R("h", 1), R("i", 1)>>
sHiPadded == <<R(" ", 1), R("h", 1), R("i", 1), R(" ", 2)>>
sBig == <<R("x", BigLen)>>

ChatIdInputs == {Undefined, Str(sBlank), Str(kC1Padded), Str(kC2)}
RoleInputs == {Undefined, Str(sUser), Str(sAdmin)}
ContentInputs == {Undefined, Str(<<>>), Str(sBlank), Str(sHiPadded), Str(sBig)}

\* the argument triples of the pushMessage calls: all arguments good, or one
\* good call with one of its arguments replaced by a faulty one
GoodChatIds == {Str(kC1Padded), Str(kC2)}
GoodRole == Str(sUser)
GoodContents == {Str(sHiPadded), Str(sBig)}
PushInputs ==
  (GoodChatIds \X {GoodRole} \X GoodContents)
    \cup {<<a, GoodRole, Str(sHiPadded)>> : a \in ChatIdInputs}
    \cup {<<Str(kC1Padded), b, Str(sHiPadded)>> : b \in RoleInputs}
    \cup {<<Str(kC1Padded), GoodRole, c>> : c \in ContentInputs}

\* a conversation as an earlier run of the bot leaves it in memoria.json:
\* k messages pushed at times 1..k, user and assistant alternating
Prefilled(k, content) ==
  [i \in 1..k |-> Message(IF i % 2 = 1 THEN sUser ELSE sAssistant, content, i)]

StoreOf(k, content) == [c \in {kC1} |-> Prefilled(k, content)]

\* a full conversation whose last CompactLimit messages are long: its text is
\* just under the size ceiling
FullStore ==
  [c \in {kC1} |->
     [i \in 1..DefaultMaxMessages |->
        Message(IF i % 2 = 1 THEN sUser ELSE sAssistant,
                IF i <= DefaultMaxMessages - CompactLimit THEN sHi ELSE sBig, i)]]

\* {"c1": "oops"}: a conversation that is not an array
NotArrayText ==
  [kind |-> "object",
   entries |-> <<[key |-> kC1, isArray |-> FALSE, items |-> <<>>]>>]

\* {"c1": [{"role": "user", "content": 7, ...}]}: content is not a string
BadItemText ==
  [kind |-> "object",
   entries |-> <<[key |-> kC1, isArray |-> TRUE,
                  items |-> <<[isObject |-> TRUE, roleT |-> "string", role |-> sUser,
                               contentT |-> "number", content |-> <<>>,
                               timestamp |-> 1, tokens |-> 1]>>]>>]

CorruptFiles == {BadText, NotArrayText, BadItemText}

InitFiles ==
  {NoFile, ScalarText} \cup CorruptFiles \cup
  {Serialize(EmptyCache), Serialize(StoreOf(AutoSaveEvery - 1, sHi)), Serialize(FullStore)}

FirstTimestamp == DefaultMaxMessages + 1

\* ------------------------------------------------------------------- state
VARIABLES
  cache,      \* memory.js `cache`: chat key -> sequence of messages
  file,       \* content of memoria.json
  clock,      \* value of the next new Date()
  saves,      \* saveMemory calls in progress: [owner, writes]
  load,       \* the loadMemory call: [pc, read, ret, synced]
  lastCall,   \* what the last pushMessage call returned
  nCalls,     \* valid pushes, timer saves and loads so far
  appends,    \* per conversation, the appends since its last auto-save trigger
  handlers,   \* per signal, where its shutdown handler of bot.js stands
  exited,     \* process.exit was called
  ctxMsgs,    \* the message list given to a ContextManager function
  ctxEnv,     \* process.env.MAX_HISTORY_MESSAGES as parseInt reads it (0: unset)
  ctxOp,      \* the ContextManager function applied, "none" before
  ctxOut,     \* the list it returned
  ctxFlag,    \* the boolean isContextConfused returned
  nowMs,      \* Date.now(), in milliseconds
  answered,   \* bot.js: the anti-duplicate map, key -> time
  limits,     \* rateLimit.js: MAX_REQUESTS_PER_MINUTE and _PER_HOUR as configured
  requests,   \* rateLimit.js: user -> [minute, hour], the stored timestamps
  hitLog,     \* per user, the times of all the hits recorded so far
  users,      \* auth.js: username -> [password (hash), createdBy]
  sessions,   \* auth.js: phone -> [username, expiresAt, loginAt]
  awaitingLogin, \* auth.js: phone -> [step, username, timestamp]
  loginTimers,   \* the pending setTimeout callbacks of startLogin
  loginStart, \* per phone, the time of its latest /login that started a login
  lastLogin,  \* per phone, the time of its latest successful login
  typed,      \* the passwords typed so far (login step, /users create)
  authFile,   \* auth.json as last written
  activityFile, \* logs/activity.json as last written: the entries
  lastMsg,    \* the last message handled and the route the handler took
  nMsgs,      \* messages handled
  nAdv,       \* advances of the clock
  salt,       \* AuthManager.salt of the running process
  restarts,   \* restarts of the bot process so far
  apiServed,  \* per client IP, the times of the requests passed on to the endpoints
  apiLast,    \* the last API request: [ip, status]
  nApi,       \* API requests so far
  backups,    \* the stores held by the files of the backup directory
  restore,    \* the restoreBackup call: [pc, target, snapshot]
  llm,        \* the askLLM call: [pc, attempt, sent, startMax, thrown]
  llmMax,     \* llmConfig.MAX_RETRIES
  llmLogged,  \* contexts of the errors askLLM recorded through errorLogger
  pending,    \* message handlers awaiting askLLM: [user, context]
  replyTo,    \* timestamp of an assistant message -> timestamp of the user message answered
  hOutcome,   \* how the last failed message handler ended
  breakers,   \* errorHandler.js this.circuitBreakers: category -> breaker
  errorCounts, \* this.errorCounts: error key -> occurrences
  inflight,   \* the analyses of the logError calls awaiting saveToFile
  autoFixAttempts, \* this.autoFixAttempts: fix key -> time of the last attempt
  openedAt,   \* category -> time its breaker opened
  lastFix     \* the last auto-fix decision of logError

storeVars == <<cache, file, clock, saves, load, lastCall, nCalls, appends,
              handlers, exited>>

ctxVars == <<ctxMsgs, ctxEnv, ctxOp, ctxOut, ctxFlag>>

botVars ==
  <<nowMs, answered, limits, requests, hitLog, users, sessions, awaitingLogin,
    loginTimers, loginStart, lastLogin, typed, authFile, activityFile, lastMsg,
    nMsgs, nAdv>>

\* the process as a whole
procVars == <<salt, restarts>>

\* the REST API of server.js
apiVars == <<apiServed, apiLast, nApi>>

\* backup.js
backupVars == <<backups, restore>>

\* llm.js
llmVars == <<llm, llmMax, llmLogged>>

\* message handlers of bot.js in progress
chatVars == <<pending, replyTo, hOutcome>>

cbVars == <<breakers, errorCounts, inflight, autoFixAttempts, openedAt, lastFix>>

sysVars == <<procVars, apiVars, backupVars, llmVars, chatVars, cbVars>>

vars == <<storeVars, ctxVars, botVars, sysVars>>

NoCall == [ret |-> "none"]

\* read is what the call found in the file, kept until the call returns;
\* synced records that the text read was the serialization of the non-empty
\* store then in memory
IdleLoad == [pc |-> "idle", read |-> "none", ret |-> "none", synced |-> FALSE]

\* the signals bot.js handles
Signals == {"SIGINT", "SIGTERM"}

\* saved: the saveMemory() the handler awaited has returned
IdleHandler == [pc |-> "idle", saved |-> FALSE]

\* the store module as loaded (let cache = {}), nothing called yet
StoreAtRest ==
  /\ cache = EmptyCache
  /\ clock = FirstTimestamp
  /\ saves = <<>>
  /\ load = IdleLoad
  /\ lastCall = NoCall
  /\ nCalls = 0
  /\ appends = <<>>
  /\ handlers = [sig \in Signals |-> IdleHandler]
  /\ exited = FALSE

\* no ContextManager function applied
CtxAtRest ==
  ctxMsgs = <<>> /\ ctxEnv = 0 /\ ctxOp = "none" /\ ctxOut = <<>> /\ ctxFlag = FALSE

\* rateLimit.js and auth.js as constructed, bot.js before its first message
DefaultPerMinute == 10
DefaultPerHour == 50
NoMessage == [sender |-> "none", at |-> 0, route |-> "none"]
NoAuthFile == [users |-> <<>>, sessions |-> <<>>]
\* crypto.randomBytes(16): salts are named in the order the processes draw them
Salts == {"salt1", "salt2"}
ProcAtRest == salt = "salt1" /\ restarts = 0

NoRequest == [ip |-> "none", status |-> 0]
ApiAtRest == apiServed = <<>> /\ apiLast = NoRequest /\ nApi = 0

RestoreIdle == [pc |-> "idle"]
BackupAtRest == backups = {} /\ restore = RestoreIdle

DefaultMaxRetries == 3
LlmIdle == [pc |-> "idle", attempt |-> 0, sent |-> 0, startMax |-> 0, thrown |-> "none"]
LlmAtRest == llm = LlmIdle /\ llmMax = DefaultMaxRetries /\ llmLogged = {}

NoFailure == [failed |-> FALSE, logged |-> FALSE, replied |-> FALSE, escaped |-> FALSE,
              running |-> TRUE]
ChatAtRest == pending = {} /\ replyTo = <<>> /\ hOutcome = NoFailure

\* errorHandler.js: the ErrorLogger after its constructor
NoFix == [category |-> "none", should |-> FALSE, run |-> FALSE, breaker |-> "none"]

CbAtRest ==
  /\ breakers = <<>>
  /\ errorCounts = <<>>
  /\ inflight = {}
  /\ autoFixAttempts = <<>>
  /\ openedAt = <<>>
  /\ lastFix = NoFix

SysAtRest ==
  ProcAtRest /\ ApiAtRest /\ BackupAtRest /\ LlmAtRest /\ ChatAtRest /\ CbAtRest

BotStart(configured) ==
  /\ SysAtRest
  /\ nowMs = 0 /\ answered = <<>>
  /\ limits = configured
  /\ requests = <<>> /\ hitLog = <<>>
  /\ users = <<>> /\ sessions = <<>> /\ awaitingLogin = <<>> /\ loginTimers = {}
  /\ loginStart = <<>> /\ lastLogin = <<>> /\ typed = {}
  /\ authFile = NoAuthFile /\ activityFile = {}
  /\ lastMsg = NoMessage /\ nMsgs = 0 /\ nAdv = 0

BotAtRest == BotStart([perMinute |-> DefaultPerMinute, perHour |-> DefaultPerHour])

Init ==
  /\ StoreAtRest
  /\ file \in InitFiles
  /\ CtxAtRest
  /\ BotAtRest

\* ------------------------------------------------------------- saveMemory
\* compactMemory's loop: the store after it and the number of messages removed
RECURSIVE RemovedCount(_, _)
RemovedCount(c, keys) ==
  IF keys = {} THEN 0
  ELSE LET k == CHOOSE x \in keys : TRUE
       IN (IF Len(c[k]) > CompactLimit THEN Len(c[k]) - CompactLimit ELSE 0)
          + RemovedCount(c, keys \ {k})

CompactedCache(c) ==
  [k \in DOMAIN c |-> IF Len(c[k]) > CompactLimit THEN LastN(c[k], CompactLimit) ELSE c[k]]

\* The synchronous part of saveMemory() called on store c: the store it
\* leaves and the fs.writeFile calls it will make, in order.  The text is
\* serialized before the size check; compactMemory saves the compacted
\* store itself (awaited) before the caller writes its own text.
RECURSIVE saveMemory(_)
saveMemory(c) ==
  LET data == Serialize(c)
  IN IF JsonLength(data) > SizeCeiling
     THEN IF RemovedCount(c, DOMAIN c) > 0
          THEN LET inner == saveMemory(CompactedCache(c))
               IN [cache |-> inner.cache, writes |-> inner.writes \o <<data>>,
                   oversized |-> TRUE]
          ELSE [cache |-> c, writes |-> <<data>>, oversized |-> TRUE]
     ELSE [cache |-> c, writes |-> <<data>>, oversized |-> FALSE]

SaveTask(owner, sv) == [owner |-> owner, writes |-> sv.writes, oversized |-> sv.oversized]

\* ------------------------------------------------------------ pushMessage
\* pushMessage with slice(0, maxMessages) for slice(-maxMessages): the cap
\* keeps the oldest messages
pushMessageKeepsOldest(c, chatId, role, content, autoSave, maxMessages, now) ==
  IF Falsy(chatId) \/ chatId.t # "string" \/ StrLen(Trim(chatId.s)) = 0
  THEN [ret |-> "false", cache |-> c, save |-> FALSE]
  ELSE IF Falsy(role) \/ role.t # "string" \/ role.s \notin {sUser, sAssistant, sSystem}
  THEN [ret |-> "false", cache |-> c, save |-> FALSE]
  ELSE IF Falsy(content) \/ content.t # "string" \/ StrLen(Trim(content.s)) = 0
  THEN [ret |-> "false", cache |-> c, save |-> FALSE]
  ELSE
    LET trimmedChatId == Trim(chatId.s)
        trimmedContent == Trim(content.s)
        before == IF trimmedChatId \in DOMAIN c THEN c[trimmedChatId] ELSE <<>>
        pushed == Append(before, Message(role.s, trimmedContent, now))
        capped == IF Len(pushed) > maxMessages THEN SubSeq(pushed, 1, maxMessages) ELSE pushed
    IN [ret |-> "true",
        cache |-> [k \in DOMAIN c \cup {trimmedChatId} |->
                     IF k = trimmedChatId THEN capped ELSE c[k]],
        save |-> autoSave /\ Len(capped) % AutoSaveEvery = 0]

\* pushMessage without the trim() in the content check: whitespace-only
\* content passes the validation
pushMessageAcceptsBlank(c, chatId, role, content, autoSave, maxMessages, now) ==
  IF Falsy(chatId) \/ chatId.t # "string" \/ StrLen(Trim(chatId.s)) = 0
  THEN [ret |-> "false", cache |-> c, save |-> FALSE]
  ELSE IF Falsy(role) \/ role.t # "string" \/ role.s \notin {sUser, sAssistant, sSystem}
  THEN [ret |-> "false", cache |-> c, save |-> FALSE]
  ELSE IF Falsy(content) \/ content.t # "string"
  THEN [ret |-> "false", cache |-> c, save |-> FALSE]
  ELSE
    LET trimmedChatId == Trim(chatId.s)
        trimmedContent == Trim(content.s)
        before == IF trimmedChatId \in DOMAIN c THEN c[trimmedChatId] ELSE <<>>
        pushed == Append(before, Message(role.s, trimmedContent, now))
        capped == IF Len(pushed) > maxMessages THEN LastN(pushed, maxMessages) ELSE pushed
    IN [ret |-> "true",
        cache |-> [k \in DOMAIN c \cup {trimmedChatId} |->
                     IF k = trimmedChatId THEN capped ELSE c[k]],
        save |-> autoSave /\ Len(capped) % AutoSaveEvery = 0]

\* pushMessage(chatId, role, content, {autoSave, maxMessages}) on store c at
\* time now: what it returns, the store after the push and the cap, and
\* whether it calls saveMemory()
pushMessage(c, chatId, role, content, autoSave, maxMessages, now) ==
  IF Falsy(chatId) \/ chatId.t # "string" \/ StrLen(Trim(chatId.s)) = 0
  THEN [ret |-> "false", cache |-> c, save |-> FALSE]
  ELSE IF Falsy(role) \/ role.t # "string" \/ role.s \notin {sUser, sAssistant, sSystem}
  THEN [ret |-> "false", cache |-> c, save |-> FALSE]
  ELSE IF Falsy(content) \/ content.t # "string" \/ StrLen(Trim(content.s)) = 0
  THEN [ret |-> "false", cache |-> c, save |-> FALSE]
  ELSE
    LET trimmedChatId == Trim(chatId.s)
        trimmedContent == Trim(content.s)
        before == IF trimmedChatId \in DOMAIN c THEN c[trimmedChatId] ELSE <<>>
        pushed == Append(before, Message(role.s, trimmedContent, now))
        capped == IF Len(pushed) > maxMessages THEN LastN(pushed, maxMessages) ELSE pushed
    IN [ret |-> "true",
        cache |-> [k \in DOMAIN c \cup {trimmedChatId} |->
                     IF k = trimmedChatId THEN capped ELSE c[k]],
        save |-> autoSave /\ Len(capped) % AutoSaveEvery = 0]

\* appends to conversation k since its last auto-save trigger
AppendsOf(k) == IF k \in DOMAIN appends THEN appends[k] ELSE 0

\* a conversation read from the file was appended message by message by an
\* earlier run, which triggered a save at every multiple of AutoSaveEvery
LoadedAppends(c) == [k \in DOMAIN c |-> Len(c[k]) % AutoSaveEvery]

\* a caller (the message handler of bot.js) pushes with the default options;
\* the auto-save is started and not awaited
Push(chatId, role, content) ==
  /\ nCalls < MaxCalls
  /\ UNCHANGED load
  /\ LET r == pushMessage(cache, chatId, role, content, TRUE, DefaultMaxMessages, clock)
         sv == saveMemory(r.cache)
     IN /\ lastCall' = [ret |-> r.ret]
        /\ nCalls' = IF r.ret = "true" THEN nCalls + 1 ELSE nCalls
        /\ clock' = IF r.ret = "true" THEN clock + 1 ELSE clock
        /\ saves' = IF r.save THEN Append(saves, SaveTask("auto", sv)) ELSE saves
        /\ cache' = IF r.save THEN sv.cache ELSE r.cache
        /\ appends' = IF r.ret # "true" THEN appends
                      ELSE LET k == Trim(chatId.s)
                           IN [x \in DOMAIN appends \cup {k} |->
                                 IF x # k THEN appends[x]
                                 ELSE IF r.save THEN 0 ELSE AppendsOf(k) + 1]
  /\ UNCHANGED <<file, handlers, exited>>
  /\ UNCHANGED <<ctxVars, botVars, sysVars>>

\* the 30-second setInterval of bot.js initialize(): await saveMemory()
TimerSave ==
  /\ nCalls < MaxCalls
  /\ LET sv == saveMemory(cache)
     IN /\ cache' = sv.cache
        /\ saves' = Append(saves, SaveTask("timer", sv))
  /\ nCalls' = nCalls + 1
  /\ UNCHANGED <<file, clock, load, lastCall, appends, handlers, exited>>
  /\ UNCHANGED <<ctxVars, botVars, sysVars>>

RemoveAt(seq, i) == SubSeq(seq, 1, i - 1) \o SubSeq(seq, i + 1, Len(seq))

\* an fs.writeFile of save i completes; the save goes on to its next write
\* or returns true to its caller
WriteDone(i) ==
  /\ i \in 1..Len(saves)
  /\ file' = Head(saves[i].writes)
  /\ IF Len(saves[i].writes) > 1
     THEN /\ saves' = [saves EXCEPT ![i].writes = Tail(@)]
          /\ load' = load
     ELSE /\ saves' = RemoveAt(saves, i)
          /\ load' = IF saves[i].owner = "load"
                     THEN [load EXCEPT !.pc = "idle", !.read = "none", !.ret = "true"]
                     ELSE load
  /\ handlers' = IF Len(saves[i].writes) = 1 /\ saves[i].owner \in Signals
                 THEN [handlers EXCEPT ![saves[i].owner] = [pc |-> "backup", saved |-> TRUE]]
                 ELSE handlers
  /\ UNCHANGED <<cache, clock, lastCall, nCalls, appends, exited>>
  /\ UNCHANGED <<ctxVars, botVars, sysVars>>

\* ------------------------------------------------------------- loadMemory
LoadStart ==
  /\ load.pc = "idle"
  /\ nCalls < MaxCalls
  /\ load' = [pc |-> "reading", read |-> "none", ret |-> "none", synced |-> FALSE]
  /\ nCalls' = nCalls + 1
  /\ UNCHANGED <<cache, file, clock, saves, lastCall, appends, handlers, exited>>
  /\ UNCHANGED <<ctxVars, botVars, sysVars>>

\* what loadMemory finds in the text it read
ReadKind(text) ==
  IF text.kind # "object" THEN text.kind
  ELSE IF IsValidStructure(text) THEN "valid" ELSE "invalid"

\* fs.readFile completes; the rest of loadMemory up to its return or to the
\* await of saveMemory()
LoadRead ==
  /\ load.pc = "reading"
  /\ LET kind == ReadKind(file)
         sv == saveMemory(EmptyCache)
         synced == cache # EmptyCache /\ file = Serialize(cache)
     IN CASE kind = "valid" ->
               /\ cache' = ParseObject(file)
               /\ load' = [pc |-> "idle", read |-> "none", ret |-> "true", synced |-> synced]
               /\ saves' = saves
          [] kind = "syntaxerror" ->
               /\ cache' = EmptyCache
               /\ load' = [pc |-> "idle", read |-> "none", ret |-> "false", synced |-> synced]
               /\ saves' = saves
          [] OTHER ->
               /\ cache' = sv.cache
               /\ load' = [pc |-> "saving", read |-> kind, ret |-> "none", synced |-> synced]
               /\ saves' = Append(saves, SaveTask("load", sv))
  /\ appends' = LoadedAppends(cache')
  /\ UNCHANGED <<file, clock, lastCall, nCalls, handlers, exited>>
  /\ UNCHANGED <<ctxVars, botVars, sysVars>>

\* ------------------------------------- memory.js: clearMemory, clearChatMemory
\* the keys clearChatMemory is called with (it does not trim them)
ClearInputs == {kC1, kC1Padded}

Without(c, k) == [x \in DOMAIN c \ {k} |-> c[x]]

\* clearMemory(): cache = {}; await saveMemory(); no return statement, so its
\* promise resolves to undefined
ClearMemory ==
  /\ nCalls < MaxCalls
  /\ LET sv == saveMemory(EmptyCache)
     IN /\ cache' = sv.cache
        /\ saves' = Append(saves, SaveTask("clear", sv))
  /\ lastCall' = [ret |-> "undefined"]
  /\ appends' = <<>>
  /\ nCalls' = nCalls + 1
  /\ UNCHANGED <<file, clock, load, handlers, exited>>
  /\ UNCHANGED <<ctxVars, botVars, sysVars>>

\* clearChatMemory(chatId): deletes the conversation, awaits saveMemory() and
\* returns the number of messages it held; 0 when the store has no such key
ClearChatMemory(chatId) ==
  /\ nCalls < MaxCalls
  /\ IF chatId \in DOMAIN cache
     THEN LET sv == saveMemory(Without(cache, chatId))
          IN /\ cache' = sv.cache
             /\ saves' = Append(saves, SaveTask("clear", sv))
             /\ lastCall' = [ret |-> "count", n |-> Len(cache[chatId])]
             /\ appends' = Without(appends, chatId)
             /\ nCalls' = nCalls + 1
     ELSE /\ lastCall' = [ret |-> "count", n |-> 0]
          /\ UNCHANGED <<cache, saves, appends, nCalls>>
  /\ UNCHANGED <<file, clock, load, handlers, exited>>
  /\ UNCHANGED <<ctxVars, botVars, sysVars>>

\* ------------------------------------------------- bot.js: SIGINT, SIGTERM
\* the handler without its first await: it goes on to createBackup() while
\* its save is pending
SignalNoAwait(sig) ==
  /\ handlers[sig].pc = "idle"
  /\ nCalls < MaxCalls
  /\ LET sv == saveMemory(cache)
     IN /\ cache' = sv.cache
        /\ saves' = Append(saves, SaveTask(sig, sv))
  /\ handlers' = [handlers EXCEPT ![sig] = [pc |-> "backup", saved |-> FALSE]]
  /\ nCalls' = nCalls + 1
  /\ UNCHANGED <<file, clock, load, lastCall, appends, exited>>
  /\ UNCHANGED <<ctxVars, botVars, sysVars>>

\* the signal arrives: the handler calls saveMemory() and awaits it
Signal(sig) ==
  /\ handlers[sig].pc = "idle"
  /\ nCalls < MaxCalls
  /\ LET sv == saveMemory(cache)
     IN /\ cache' = sv.cache
        /\ saves' = Append(saves, SaveTask(sig, sv))
  /\ handlers' = [handlers EXCEPT ![sig] = [pc |-> "saving", saved |-> FALSE]]
  /\ nCalls' = nCalls + 1
  /\ UNCHANGED <<file, clock, load, lastCall, appends, exited>>
  /\ UNCHANGED <<ctxVars, botVars, sysVars>>

\* the handler's await createBackup() returns and it calls process.exit(0),
\* or createBackup() throws and the handler ends without exiting
BackupDone(sig, ok) ==
  /\ handlers[sig].pc = "backup"
  /\ handlers' = [handlers EXCEPT ![sig].pc = IF ok THEN "exited" ELSE "failed"]
  /\ exited' = ok
  /\ UNCHANGED <<cache, file, clock, saves, load, lastCall, nCalls, appends>>
  /\ UNCHANGED <<ctxVars, botVars, sysVars>>

\* the store in service: pushes, the periodic save, writes, loadMemory
Next ==
  \/ \E in \in PushInputs : Push(in[1], in[2], in[3])
  \/ TimerSave
  \/ \E i \in 1..Len(saves) : WriteDone(i)
  \/ LoadStart
  \/ LoadRead

Spec == Init /\ [][Next]_vars

\* the store with the clearing commands
NextClear ==
  \/ \E in \in PushInputs : Push(in[1], in[2], in[3])
  \/ \E i \in 1..Len(saves) : WriteDone(i)
  \/ ClearMemory
  \/ \E chatId \in ClearInputs : ClearChatMemory(chatId)

SpecClear == Init /\ [][NextClear]_vars

\* the store until the process exits on a signal
NextExit ==
  /\ ~exited
  /\ \/ \E in \in PushInputs : Push(in[1], in[2], in[3])
     \/ TimerSave
     \/ \E i \in 1..Len(saves) : WriteDone(i)
     \/ \E sig \in Signals : Signal(sig)
     \/ \E sig \in Signals, ok \in BOOLEAN : BackupDone(sig, ok)

SpecExit == Init /\ [][NextExit]_vars

\* ------------------------------------------------------ properties: store
\* the last k elements of seq, oldest first
MostRecent(seq, k) == [i \in 1..k |-> seq[Len(seq) - k + i]]

\* the conversation of chat k in store c, empty when the store has none
ConversationOf(c, k) == IF k \in DOMAIN c THEN c[k] ELSE <<>>

\* everything appended to the chat so far, with the message of this push
Appended(chatId, role, content) ==
  Append(ConversationOf(cache, Trim(chatId.s)),
         Message(role.s, Trim(content.s), clock))

\* C1 as stated: after a pushMessage with the default options no conversation
\* holds more than 50 messages, and when the append exceeded the cap the
\* conversation is exactly the 50 most recently appended messages, in order.
C1_CapKeepsFiftyMostRecent ==
  [][\A <<chatId, role, content>> \in PushInputs :
       (clock' # clock /\ lastCall'.ret = "true" /\ Push(chatId, role, content)) =>
         /\ \A k \in DOMAIN cache' : Len(cache'[k]) <= DefaultMaxMessages
         /\ Len(Appended(chatId, role, content)) > DefaultMaxMessages =>
              cache'[Trim(chatId.s)] =
                MostRecent(Appended(chatId, role, content), DefaultMaxMessages)]_vars

\* C1 amended: as C1, except that when the store capped at 50 serializes to
\* more than the size ceiling, the auto-save started by that push compacts and
\* the conversation is the 30 most recently appended messages.
C1_CapKeepsMostRecent ==
  [][\A <<chatId, role, content>> \in PushInputs :
       (clock' # clock /\ lastCall'.ret = "true" /\ Push(chatId, role, content)) =>
         /\ \A k \in DOMAIN cache' : Len(cache'[k]) <= DefaultMaxMessages
         /\ Len(Appended(chatId, role, content)) > DefaultMaxMessages =>
              LET all == Appended(chatId, role, content)
                  capped == [cache EXCEPT ![Trim(chatId.s)] =
                               MostRecent(all, DefaultMaxMessages)]
              IN cache'[Trim(chatId.s)] =
                   IF JsonLength(Serialize(capped)) > SizeCeiling
                   THEN MostRecent(all, CompactLimit)
                   ELSE MostRecent(all, DefaultMaxMessages)]_vars

\* a full conversation received one more message and lost its oldest one
C1_Witness ==
  \E k \in DOMAIN cache :
    /\ Len(cache[k]) = DefaultMaxMessages
    /\ cache[k][1].timestamp = 2
    /\ cache[k][DefaultMaxMessages].timestamp = FirstTimestamp

AllWhitespace(s) == \A i \in 1..Len(s) : s[i].ch \in Whitespace

\* missing or blank chat key, role outside {user, assistant, system}, missing
\* or whitespace-only content
InvalidArgs(chatId, role, content) ==
  \/ chatId.t = "undefined" \/ AllWhitespace(chatId.s)
  \/ role.t = "undefined" \/ role.s \notin ValidRoles
  \/ content.t = "undefined" \/ AllWhitespace(content.s)

\* C2: pushMessage with invalid arguments returns false, leaves the store
\* unchanged and starts no save (nothing is written).
C2_InvalidPushIsNoOp ==
  [][\A <<chatId, role, content>> \in PushInputs :
       (InvalidArgs(chatId, role, content) /\ Push(chatId, role, content)) =>
         /\ lastCall'.ret = "false"
         /\ cache' = cache
         /\ saves' = saves
         /\ file' = file]_vars

\* an invalid push was made on a non-empty store
C2_Witness ==
  /\ lastCall.ret = "false"
  /\ cache # EmptyCache

\* C3 as stated: when loadMemory read text that does not parse or fails the
\* structural validation, the store becomes empty and, when loadMemory
\* returns, the file holds the serialization of the empty store.
C3_CorruptFileIsHealed ==
  [][/\ (load.pc = "reading" /\ load'.pc # "reading"
         /\ ReadKind(file) \in {"syntaxerror", "invalid"}) => cache' = EmptyCache
     /\ (load.pc = "reading" /\ load'.pc = "idle"
         /\ ReadKind(file) \in {"syntaxerror", "invalid"}) =>
          file' = Serialize(EmptyCache)
     /\ (load.pc = "saving" /\ load'.pc = "idle"
         /\ load.read \in {"syntaxerror", "invalid"}) =>
          file' = Serialize(EmptyCache)]_vars

\* C4 as stated: when a saveMemory call that found the store over the size
\* ceiling returns, the file holds the serialization of the compacted store,
\* which is the store in memory.
C4_OversizedSaveWritesCompacted ==
  [][\A i \in 1..Len(saves) :
       (WriteDone(i) /\ saves[i].oversized /\ Len(saves[i].writes) = 1) =>
         /\ file' = Serialize(cache')
         /\ \A k \in DOMAIN cache' : Len(cache'[k]) <= CompactLimit]_vars

\* C5: when loadMemory reads a file that holds the serialization of the
\* store in memory (a completed save, no mutation since) and that is below
\* the size ceiling, it returns true and the store is the same map.
C5_SaveLoadRoundTrip ==
  [][(/\ load.pc = "reading" /\ load'.pc # "reading"
      /\ file = Serialize(cache)
      /\ JsonLength(file) <= SizeCeiling) =>
       /\ cache' = cache
       /\ load'.ret = "true"]_vars

\* a store with a message pushed in this run was saved and then loaded
C5_Witness ==
  /\ load.pc = "idle" /\ load.synced /\ load.ret = "true"
  /\ \E k \in DOMAIN cache :
       \E i \in 1..Len(cache[k]) : cache[k][i].timestamp >= FirstTimestamp

\* C11 as stated: with auto-save enabled, an append triggers a save exactly
\* when it is the AutoSaveEvery-th append to its conversation since the
\* previous auto-save trigger, also once the conversation is at its cap.
C11_AutoSaveEveryTenthAppend ==
  [][\A <<chatId, role, content>> \in PushInputs :
       (~InvalidArgs(chatId, role, content) /\ Push(chatId, role, content)) =>
         ((Len(saves') = Len(saves) + 1)
            <=> (AppendsOf(Trim(chatId.s)) + 1 = AutoSaveEvery))]_vars

RECURSIVE TotalMessages(_, _)
TotalMessages(c, keys) ==
  IF keys = {} THEN 0
  ELSE LET k == CHOOSE x \in keys : TRUE
       IN Len(c[k]) + TotalMessages(c, keys \ {k})

\* C14 as stated: clearMemory removes every conversation and returns the
\* numbers of conversations and of messages removed; clearChatMemory removes
\* only the conversation of its key and returns the number of its messages,
\* 0 for an unknown key.
C14_ClearReturnsCounts ==
  [][/\ ClearMemory =>
          /\ cache' = EmptyCache
          /\ lastCall'.ret = "counts"
          /\ lastCall'.chatCount = Cardinality(DOMAIN cache)
          /\ lastCall'.totalMessages = TotalMessages(cache, DOMAIN cache)
     /\ \A chatId \in ClearInputs :
          ClearChatMemory(chatId) =>
            /\ DOMAIN cache' = DOMAIN cache \ {chatId}
            /\ \A k \in DOMAIN cache' : cache'[k] = cache[k]
            /\ lastCall'.ret = "count"
            /\ lastCall'.n = Len(ConversationOf(cache, chatId))]_vars

\* C12: a signal handler reaches process.exit only after the saveMemory()
\* it started has returned; none of its writes is pending at the exit.
C12_ExitOnlyAfterHandlerSave ==
  [][\A sig \in Signals :
       (BackupDone(sig, TRUE) /\ exited') =>
         /\ handlers[sig].saved
         /\ \A i \in 1..Len(saves) : saves[i].owner # sig]_vars

\* a handler saved a non-empty store, then exited the process
C12_Witness ==
  /\ exited
  /\ cache # EmptyCache
  /\ \E sig \in Signals : handlers[sig].pc = "exited" /\ handlers[sig].saved

\* ------------------------------------------------- contextManager.js: text
UpperCase == <<"A", "B", "C", "D", "E", "F", "G", "H", "I", "J", "K", "L", "M",
               "N", "O", "P", "Q", "R", "S", "T", "U", "V", "W", "X", "Y", "Z">>
LowerCase == <<"a", "b", "c", "d", "e", "f", "g", "h", "i", "j", "k", "l", "m",
               "n", "o", "p", "q", "r", "s", "t", "u", "v", "w", "x", "y", "z">>
Digits == {"0", "1", "2", "3", "4", "5", "6", "7", "8", "9"}
Letters == {UpperCase[i] : i \in 1..26} \cup {LowerCase[i] : i \in 1..26}

LowerChar(c) ==
  IF \E i \in 1..26 : UpperCase[i] = c
  THEN LowerCase[CHOOSE i \in 1..26 : UpperCase[i] = c]
  ELSE c

\* String.prototype.toLowerCase, as a sequence of characters
toLowerCase(s) == LET cs == Chars(s) IN [i \in 1..Len(cs) |-> LowerChar(cs[i])]

\* String.prototype.includes on sequences of characters
Includes(cs, w) ==
  \E i \in 1..(Len(cs) - Len(w) + 1) : SubSeq(cs, i, i + Len(w) - 1) = w

wNome == <<"n", "o", "m", "e">>
wEndereco == <<"e", "n", "d", "e", "r", "e", "ç", "o">>
wTelefone == <<"t", "e", "l", "e", "f", "o", "n", "e">>
wEmail == <<"e", "m", "a", "i", "l">>
wData == <<"d", "a", "t", "a">>
wKkk == <<"k", "k", "k">>
wHaha == <<"h", "a", "h", "a">>
wEmoji == <<"e", "m", "o", "j", "i">>

\* ------------------------------------------------ calculateMessageImportance
calculateMessageImportance(message) ==
  LET content == toLowerCase(message.content)
      sys == IF message.role = sSystem THEN 100 ELSE 0
      question == IF Includes(content, <<"?">>) THEN 20 ELSE 0
      specific == IF \/ \E i \in 1..Len(content) : content[i] \in Digits
                     \/ Includes(content, wNome)
                     \/ Includes(content, wEndereco)
                     \/ Includes(content, wTelefone)
                     \/ Includes(content, wEmail)
                     \/ Includes(content, wData)
                  THEN 15 ELSE 0
      long == IF Len(content) > 100 THEN 10 ELSE 0
      short == IF Len(content) < 10 THEN 10 ELSE 0
      spam == IF \/ Includes(content, wKkk)
                 \/ Includes(content, wHaha)
                 \/ Includes(content, wEmoji)
                 \/ \A i \in 1..Len(content) :
                      content[i] \notin Letters \cup Digits \cup Whitespace
              THEN 5 ELSE 0
      score == sys + question + specific + long - short - spam
  IN IF score < 0 THEN 0 ELSE score

\* --------------------------------------------------- selectImportantMessages
\* Array.prototype.sort((a, b) => b.score - a.score): stable, descending
RECURSIVE InsertByScore(_, _)
InsertByScore(sorted, x) ==
  IF sorted = <<>> THEN <<x>>
  ELSE IF Head(sorted).score >= x.score
       THEN <<Head(sorted)>> \o InsertByScore(Tail(sorted), x)
       ELSE <<x>> \o sorted

\* the sort with the comparator a.score - b.score: ascending
RECURSIVE InsertByScoreAscending(_, _)
InsertByScoreAscending(sorted, x) ==
  IF sorted = <<>> THEN <<x>>
  ELSE IF Head(sorted).score <= x.score
       THEN <<Head(sorted)>> \o InsertByScoreAscending(Tail(sorted), x)
       ELSE <<x>> \o sorted

RECURSIVE SortByScoreAscending(_)
SortByScoreAscending(xs) ==
  IF xs = <<>> THEN <<>>
  ELSE InsertByScoreAscending(SortByScoreAscending(SubSeq(xs, 1, Len(xs) - 1)), xs[Len(xs)])

RECURSIVE SortByScore(_)
SortByScore(xs) ==
  IF xs = <<>> THEN <<>>
  ELSE InsertByScore(SortByScore(SubSeq(xs, 1, Len(xs) - 1)), xs[Len(xs)])

\* the elements of seq at the indices in idx, in ascending index order
RECURSIVE PickFrom(_, _, _)
PickFrom(seq, idx, i) ==
  IF i > Len(seq) THEN <<>>
  ELSE (IF i \in idx THEN <<seq[i]>> ELSE <<>>) \o PickFrom(seq, idx, i + 1)

\* maxCount is given in tenths (maxMessages * 0.2 is 2 * maxMessages tenths).
\* The double product is the exact product rounded, and 0.2 and 0.8 as doubles
\* lie just above 1/5 and 4/5, so Math.floor and the truncation done by slice
\* give the values of the exact products.
selectImportantMessages(messages, maxCountTenths) ==
  LET scored == [i \in 1..Len(messages) |->
                   [score |-> calculateMessageImportance(messages[i]),
                    originalIndex |-> i]]
      sorted == SortByScore(scored)
      count == maxCountTenths \div 10
      top == SubSeq(sorted, 1, IF count < Len(sorted) THEN count ELSE Len(sorted))
  IN PickFrom(messages, {top[i].originalIndex : i \in 1..Len(top)}, 1)

\* --------------------------------------------------------- Array.slice
\* messages.slice(-x) for x > 0 given in tenths: -x is truncated toward zero,
\* and a start of -0 is the start of the array
SliceLastTenths(seq, tenths) ==
  LET k == tenths \div 10
  IN IF k = 0 \/ k >= Len(seq) THEN seq ELSE SubSeq(seq, Len(seq) - k + 1, Len(seq))

\* messages.slice(0, messages.length - x) for x given in tenths, with
\* messages.length - x > 0: the end is truncated toward zero
SliceHeadTenths(seq, tenths) == SubSeq(seq, 1, (10 * Len(seq) - tenths) \div 10)

\* ------------------------------------------------------ keepRelevantContext
DefaultMaxHistory == 100

\* parseInt(process.env.MAX_HISTORY_MESSAGES) || 100
MaxHistoryMessages(env) == IF env = 0 THEN DefaultMaxHistory ELSE env

keepRelevantContext(messages, env) ==
  LET maxMessages == MaxHistoryMessages(env)
  IN IF Len(messages) <= maxMessages THEN messages
     ELSE LET recentMessages == SliceLastTenths(messages, 8 * maxMessages)
              oldImportantMessages ==
                selectImportantMessages(SliceHeadTenths(messages, 8 * maxMessages),
                                        2 * maxMessages)
          IN oldImportantMessages \o recentMessages

\* ------------------------------------------------ removeDuplicateConsecutive
\* the loop from message i on, with the result so far; lastMessage is the
\* last element of result (null while result is empty)
RECURSIVE DedupLoop(_, _, _)
DedupLoop(messages, i, result) ==
  IF i > Len(messages) THEN result
  ELSE IF \/ result = <<>>
          \/ result[Len(result)].content # messages[i].content
          \/ result[Len(result)].role # messages[i].role
       THEN DedupLoop(messages, i + 1, Append(result, messages[i]))
       ELSE DedupLoop(messages, i + 1, result)

\* the loop with && for ||: a message is kept only when both its content and
\* its role differ from the last kept message
RECURSIVE DedupLoopBothDiffer(_, _, _)
DedupLoopBothDiffer(messages, i, result) ==
  IF i > Len(messages) THEN result
  ELSE IF \/ result = <<>>
          \/ /\ result[Len(result)].content # messages[i].content
             /\ result[Len(result)].role # messages[i].role
       THEN DedupLoopBothDiffer(messages, i + 1, Append(result, messages[i]))
       ELSE DedupLoopBothDiffer(messages, i + 1, result)

removeDuplicateConsecutiveBothDiffer(messages) == DedupLoopBothDiffer(messages, 1, <<>>)

removeDuplicateConsecutive(messages) == DedupLoop(messages, 1, <<>>)

\* --------------------------------------------------- removeConversationLoops
LoopWindow == 20
PatternChars == 50
LoopThreshold == 2

\* `${msg.role}:${msg.content.slice(0, 50)}` (no role contains a colon)
Pattern(msg) == <<msg.role, StrTake(msg.content, PatternChars)>>

\* patterns.get(p) || 0 after the counting loop, which runs over
\* recentMessages[0 .. recentMessages.length - 2]
PatternCount(recentMessages, p) ==
  Cardinality({i \in 1..(Len(recentMessages) - 1) : Pattern(recentMessages[i]) = p})

removeConversationLoops(messages) ==
  LET recentMessages == LastN(messages, LoopWindow)
  IN SelectSeq(messages,
               LAMBDA msg : PatternCount(recentMessages, Pattern(msg)) <= LoopThreshold)

\* ----------------------------------------- inputs of the ContextManager functions
MaxListLen == 6
MaxCap == 5
MaxOutside == 2

cKkk == <<R("k", 3)>>
cHigh == <<R("1", 1), R("?", 1), R("x", 101)>>
cLoopA == <<R("q", PatternChars), R("a", 1)>>
cLoopB == <<R("q", PatternChars), R("b", 1)>>

CtxKinds ==
  {[role |-> sSystem, content |-> cKkk],
   [role |-> sUser, content |-> cKkk],
   [role |-> sUser, content |-> cHigh]}

\* every list of at most MaxListLen messages of these kinds, stamped 1, 2, ...
ShortLists ==
  UNION {{[i \in 1..n |-> Message(f[i].role, f[i].content, i)] : f \in [1..n -> CtxKinds]}
         : n \in 0..MaxListLen}

LongLen == LoopWindow + MaxOutside

Filler(i) == Message(IF i % 2 = 1 THEN sUser ELSE sAssistant, <<R("f", 1), R("z", i)>>, i)
Repeated(i) == Message(sUser, IF i % 2 = 1 THEN cLoopA ELSE cLoopB, i)

\* LongLen messages, all different except that up to four of them, anywhere,
\* start with the same 50 characters
LongLists ==
  {[i \in 1..LongLen |-> IF i \in P THEN Repeated(i) ELSE Filler(i)]
   : P \in {{}} \cup {{a, b, c, d} : a \in 1..LongLen, b \in 1..LongLen,
                                      c \in 1..LongLen, d \in 1..LongLen}}

InitCtx ==
  /\ StoreAtRest /\ file = NoFile /\ BotAtRest
  /\ \/ ctxMsgs \in ShortLists /\ ctxEnv \in 0..MaxCap
     \/ ctxMsgs \in LongLists /\ ctxEnv = 0
  /\ ctxOp = "none"
  /\ ctxOut = <<>>
  /\ ctxFlag = FALSE

ApplyRemoveDuplicateConsecutive ==
  /\ ctxOp = "none"
  /\ ctxOp' = "removeDuplicateConsecutive"
  /\ ctxOut' = removeDuplicateConsecutive(ctxMsgs)
  /\ UNCHANGED <<ctxMsgs, ctxEnv, ctxFlag>>
  /\ UNCHANGED <<storeVars, botVars, sysVars>>

ApplyRemoveConversationLoops ==
  /\ ctxOp = "none"
  /\ ctxOp' = "removeConversationLoops"
  /\ ctxOut' = removeConversationLoops(ctxMsgs)
  /\ UNCHANGED <<ctxMsgs, ctxEnv, ctxFlag>>
  /\ UNCHANGED <<storeVars, botVars, sysVars>>

ApplyKeepRelevantContext ==
  /\ ctxOp = "none"
  /\ ctxOp' = "keepRelevantContext"
  /\ ctxOut' = keepRelevantContext(ctxMsgs, ctxEnv)
  /\ UNCHANGED <<ctxMsgs, ctxEnv, ctxFlag>>
  /\ UNCHANGED <<storeVars, botVars, sysVars>>

NextCtx ==
  \/ ApplyRemoveDuplicateConsecutive
  \/ ApplyRemoveConversationLoops
  \/ ApplyKeepRelevantContext

SpecCtx == InitCtx /\ [][NextCtx]_vars

\* -------------------------------------------- properties: context cleaning
IndexOf(seq) == 1..Len(seq)

IsSystem(msg) == msg.role = sSystem

OccursIn(msg, seq) == \E j \in IndexOf(seq) : seq[j] = msg

\* C6 as stated: for every list and every cap C >= 1, keepRelevantContext
\* returns at most C messages.
C6_TrimmedLengthAtMostCap ==
  (ctxOp = "keepRelevantContext" /\ ctxEnv >= 1) => Len(ctxOut) <= ctxEnv

\* C7 as stated: for every cap C >= 1, every system message of the input of
\* keepRelevantContext occurs in its output.
C7_SystemMessagesNeverDropped ==
  (ctxOp = "keepRelevantContext" /\ ctxEnv >= 1) =>
    \A i \in IndexOf(ctxMsgs) : IsSystem(ctxMsgs[i]) => OccursIn(ctxMsgs[i], ctxOut)

\* floor(0.8 * C), ceil(0.8 * C) and floor(0.2 * C)
TailLength(cap) == (8 * cap) \div 10
TailReach(cap) == (8 * cap + 9) \div 10
OlderQuota(cap) == (2 * cap) \div 10

\* C7 amended: a system message of the input occurs in the output when the
\* input is no longer than C, when it is among the last floor(0.8 C)
\* messages, or when it is among the first length - ceil(0.8 C) messages and
\* these hold at most floor(0.2 C) system messages.
C7_SystemMessagesKeptWithinQuota ==
  (ctxOp = "keepRelevantContext" /\ ctxEnv >= 1) =>
    LET n == Len(ctxMsgs)
        older == 1..(n - TailReach(ctxEnv))
        olderSystem == {i \in older : IsSystem(ctxMsgs[i])}
    IN \A i \in IndexOf(ctxMsgs) :
         (/\ IsSystem(ctxMsgs[i])
          /\ \/ n <= ctxEnv
             \/ i > n - TailLength(ctxEnv)
             \/ i \in older /\ Cardinality(olderSystem) <= OlderQuota(ctxEnv))
         => OccursIn(ctxMsgs[i], ctxOut)

\* a list longer than the cap was trimmed, and the system message of its older
\* part was kept while another older message was dropped
C7_Witness ==
  /\ ctxOp = "keepRelevantContext"
  /\ ctxEnv >= 1
  /\ Len(ctxMsgs) > ctxEnv
  /\ Len(ctxOut) < Len(ctxMsgs)
  /\ Len(ctxMsgs) - TailReach(ctxEnv) >= 2
  /\ IsSystem(ctxMsgs[2]) /\ ~IsSystem(ctxMsgs[1])
  /\ OccursIn(ctxMsgs[2], ctxOut) /\ ~OccursIn(ctxMsgs[1], ctxOut)

\* the last 20 positions of a list
WindowOf(seq) == {i \in IndexOf(seq) : i > Len(seq) - LoopWindow}

SameKey(a, b) == a.role = b.role /\ StrTake(a.content, PatternChars) = StrTake(b.content, PatternChars)

\* C8 as stated: a key that occurs 3 or more times among the last 20 messages
\* given to removeConversationLoops occurs at most twice in what it returns.
C8_LoopKeyKeptAtMostTwice ==
  ctxOp = "removeConversationLoops" =>
    \A i \in WindowOf(ctxMsgs) :
      Cardinality({j \in WindowOf(ctxMsgs) : SameKey(ctxMsgs[j], ctxMsgs[i])}) >= 3 =>
        Cardinality({j \in IndexOf(ctxOut) : SameKey(ctxOut[j], ctxMsgs[i])}) <= 2

\* C9 as stated: removeConversationLoops returns every message that lies
\* before the last 20 messages, unchanged and in place.
C9_OutsideWindowUntouched ==
  ctxOp = "removeConversationLoops" =>
    \A i \in IndexOf(ctxMsgs) \ WindowOf(ctxMsgs) :
      i <= Len(ctxOut) /\ ctxOut[i] = ctxMsgs[i]

SamePair(a, b) == a.role = b.role /\ a.content = b.content

\* the input positions of the messages of out (time stamps identify them)
KeptPositions(in, out) == {i \in IndexOf(in) : OccursIn(in[i], out)}

\* C10: removeDuplicateConsecutive returns a subsequence of its input, in
\* order, without two adjacent messages of equal (role, content); a message
\* is dropped exactly when its pair equals that of the kept message before it.
C10_DropsExactlyConsecutiveDuplicates ==
  ctxOp = "removeDuplicateConsecutive" =>
    LET kept == KeptPositions(ctxMsgs, ctxOut)
        KeptBefore(i) == {j \in kept : j < i}
        LastKeptBefore(i) == CHOOSE j \in KeptBefore(i) : \A h \in KeptBefore(i) : h <= j
    IN /\ Len(ctxOut) = Cardinality(kept)
       /\ \A a, b \in IndexOf(ctxOut) :
            a < b => ctxOut[a].timestamp < ctxOut[b].timestamp
       /\ \A a \in IndexOf(ctxOut) :
            a > 1 => ~SamePair(ctxOut[a - 1], ctxOut[a])
       /\ \A i \in IndexOf(ctxMsgs) :
            i \notin kept <=>
              (KeptBefore(i) # {} /\ SamePair(ctxMsgs[LastKeptBefore(i)], ctxMsgs[i]))

\* a list with a consecutive duplicate and a later change of role only
C10_Witness ==
  /\ ctxOp = "removeDuplicateConsecutive"
  /\ Len(ctxMsgs) >= 4
  /\ SamePair(ctxMsgs[1], ctxMsgs[2])
  /\ ctxMsgs[3].content = ctxMsgs[2].content /\ ctxMsgs[3].role # ctxMsgs[2].role
  /\ Len(ctxOut) = Len(ctxMsgs) - 1

\* ------------------------------------------------- memory.js: getMessages
DefaultLimit == 20
LimitCeiling == 100

Max2(a, b) == IF a >= b THEN a ELSE b
Min2(a, b) == IF a <= b THEN a ELSE b

\* options.roles: undefined or an array of roles; options.since: undefined or
\* a Date (as a time of the clock)
NoOption == [t |-> "undefined"]
RolesOption(roles) == [t |-> "array", v |-> roles]
SinceOption(time) == [t |-> "date", v |-> time]

PassesRoles(msg, options) ==
  options.roles.t = "array" => \E i \in 1..Len(options.roles.v) : options.roles.v[i] = msg.role
PassesSince(msg, options) ==
  options.since.t = "date" => msg.timestamp >= options.since.v

\* getMessages with slice(0, validLimit): the first messages, not the last
getMessagesFirst(c, chatId, limit, options) ==
  IF Falsy(chatId) \/ chatId.t # "string" THEN <<>>
  ELSE LET trimmedChatId == Trim(chatId.s)
       IN IF trimmedChatId \notin DOMAIN c THEN <<>>
          ELSE LET byRole == SelectSeq(c[trimmedChatId], LAMBDA m : PassesRoles(m, options))
                   bySince == SelectSeq(byRole, LAMBDA m : PassesSince(m, options))
                   validLimit == Max2(1, Min2(limit, LimitCeiling))
               IN SubSeq(bySince, 1, Min2(validLimit, Len(bySince)))

\* getMessages(chatId, limit, options) on store c: the array it returns (the
\* store is read through a clone and not assigned)
getMessages(c, chatId, limit, options) ==
  IF Falsy(chatId) \/ chatId.t # "string" THEN <<>>
  ELSE LET trimmedChatId == Trim(chatId.s)
       IN IF trimmedChatId \notin DOMAIN c THEN <<>>
          ELSE LET byRole == SelectSeq(c[trimmedChatId], LAMBDA m : PassesRoles(m, options))
                   bySince == SelectSeq(byRole, LAMBDA m : PassesSince(m, options))
                   validLimit == Max2(1, Min2(limit, LimitCeiling))
               IN LastN(bySince, validLimit)

\* stores getMessages is called on: empty; two conversations, one of them
\* emptied by getThread; one conversation longer than the limit ceiling, as
\* loadMemory accepts it from the file
MixedConversation ==
  <<Message(sSystem, sHi, 1), Message(sUser, sHi, 2), Message(sAssistant, sHi, 3),
    Message(sUser, sBlank, 4), Message(sAssistant, sHi, 5)>>
GetStores ==
  {EmptyCache,
   [k \in {kC1, kC2} |-> IF k = kC1 THEN MixedConversation ELSE <<>>],
   StoreOf(LimitCeiling + 1, sHi)}

GetLimits == {-1, 0, 1, 2, DefaultLimit, LimitCeiling, LimitCeiling + 1}
GetOptions ==
  [roles : {NoOption, RolesOption(<<>>), RolesOption(<<sUser>>), RolesOption(<<sUser, sSystem>>)},
   since : {NoOption, SinceOption(3)}]

InitGet ==
  /\ cache \in GetStores
  /\ file = NoFile /\ clock = FirstTimestamp /\ saves = <<>> /\ load = IdleLoad
  /\ lastCall = NoCall /\ nCalls = 0 /\ appends = LoadedAppends(cache)
  /\ handlers = [sig \in Signals |-> IdleHandler] /\ exited = FALSE
  /\ CtxAtRest /\ BotAtRest

\* one call, on the store as Init left it
GetMessages(chatId, limit, options) ==
  /\ lastCall = NoCall
  /\ lastCall' = [ret |-> "messages", chatId |-> chatId, limit |-> limit,
                  options |-> options,
                  out |-> getMessages(cache, chatId, limit, options)]
  /\ UNCHANGED <<cache, file, clock, saves, load, nCalls, appends, handlers, exited>>
  /\ UNCHANGED <<ctxVars, botVars, sysVars>>

NextGet ==
  \E chatId \in ChatIdInputs, limit \in GetLimits, options \in GetOptions :
    GetMessages(chatId, limit, options)

SpecGet == InitGet /\ [][NextGet]_vars

\* the positions of conversation conv that pass the filters
PassingPositions(conv, options) ==
  {i \in 1..Len(conv) : PassesRoles(conv[i], options) /\ PassesSince(conv[i], options)}

\* C13: getMessages leaves the store as it was; for an unknown key it returns
\* the empty sequence, otherwise the last min(max(limit,1),100) messages that
\* pass the filters, in their stored order.
C13_GetMessagesReadsLastLimit ==
  [][(lastCall'.ret = "messages"
        /\ GetMessages(lastCall'.chatId, lastCall'.limit, lastCall'.options)) =>
       LET chatId == lastCall'.chatId
           k == IF chatId.t = "string" THEN Trim(chatId.s) ELSE <<>>
           out == lastCall'.out
       IN /\ cache' = cache
          /\ IF chatId.t # "string" \/ k \notin DOMAIN cache THEN out = <<>>
             ELSE LET conv == cache[k]
                      P == PassingPositions(conv, lastCall'.options)
                      rank == [i \in 1..Len(conv) |-> Cardinality({x \in P : x <= i})]
                      n == Min2(Min2(Max2(lastCall'.limit, 1), LimitCeiling), Cardinality(P))
                      skipped == Cardinality(P) - n
                  IN /\ Len(out) = n
                     /\ \A i \in P : rank[i] > skipped => out[rank[i] - skipped] = conv[i]]_vars

\* a call returned exactly LimitCeiling messages of a longer conversation
C13_Witness ==
  /\ lastCall.ret = "messages"
  /\ Len(lastCall.out) = LimitCeiling
  /\ \E k \in DOMAIN cache : Len(cache[k]) > LimitCeiling

\* ------------------------------------- contextManager.js: isContextConfused
ConfusedMinLen == 4
ConfusedWindow == 6
TopicChangeLimit == 3
ContradictionLimit == 1
\* the similarity threshold 0.3 as a fraction
LowSimilarityNum == 3
LowSimilarityDen == 10
MinWordLen == 3

\* text.split(/\s+/).filter(w => w.length > 3) as a set: the maximal runs of
\* non-whitespace characters that are longer than MinWordLen
WordSet(cs) ==
  {SubSeq(cs, i, j) : <<i, j>> \in
     {p \in (1..Len(cs)) \X (1..Len(cs)) :
        /\ p[2] - p[1] + 1 > MinWordLen
        /\ \A x \in p[1]..p[2] : cs[x] \notin Whitespace
        /\ (p[1] = 1 \/ cs[p[1] - 1] \in Whitespace)
        /\ (p[2] = Len(cs) \/ cs[p[2] + 1] \in Whitespace)}}

\* getTopicSimilarity as the fraction intersection.size / union.size (0 / 1
\* when the union is empty)
getTopicSimilarity(text1, text2) ==
  LET words1 == WordSet(text1)
      words2 == WordSet(text2)
  IN IF words1 \cup words2 = {} THEN [num |-> 0, den |-> 1]
     ELSE [num |-> Cardinality(words1 \cap words2), den |-> Cardinality(words1 \cup words2)]

IsLowSimilarity(sim) == sim.num * LowSimilarityDen < LowSimilarityNum * sim.den

wSim == <<"s", "i", "m">>
wNao == <<"n", "ã", "o">>
wVerdade == <<"v", "e", "r", "d", "a", "d", "e">>
wFalso == <<"f", "a", "l", "s", "o">>
wCorreto == <<"c", "o", "r", "r", "e", "t", "o">>
wErrado == <<"e", "r", "r", "a", "d", "o">>
wPode == <<"p", "o", "d", "e">>
wNaoPode == <<"n", "ã", "o", " ", "p", "o", "d", "e">>
wE == <<"é">>
wNaoE == <<"n", "ã", "o", " ", "é">>
contradictoryPairs ==
  {<<wSim, wNao>>, <<wVerdade, wFalso>>, <<wCorreto, wErrado>>, <<wPode, wNaoPode>>,
   <<wE, wNaoE>>}

hasContradiction(text1, text2) ==
  LET t1 == toLowerCase(text1)
      t2 == toLowerCase(text2)
  IN \E pair \in contradictoryPairs :
       \/ Includes(t1, pair[1]) /\ Includes(t2, pair[2])
       \/ Includes(t1, pair[2]) /\ Includes(t2, pair[1])

\* the number of i in 2..Len(seq) with Test(seq[i - 1], seq[i])
CountPairs(seq, Test(_, _)) ==
  Cardinality({i \in 2..Len(seq) : Test(seq[i - 1], seq[i])})

TopicChanged(prev, curr) ==
  IsLowSimilarity(getTopicSimilarity(toLowerCase(prev.content), toLowerCase(curr.content)))
Contradicts(prev, curr) == hasContradiction(prev.content, curr.content)

isContextConfused(messages) ==
  IF Len(messages) < ConfusedMinLen THEN FALSE
  ELSE LET recentMessages == LastN(messages, ConfusedWindow)
           topicChanges == CountPairs(recentMessages, TopicChanged)
           aiMessages == SelectSeq(recentMessages, LAMBDA m : m.role = sAssistant)
           contradictions == CountPairs(aiMessages, Contradicts)
       IN topicChanges > TopicChangeLimit \/ contradictions > ContradictionLimit

\* message lists of up to MaxConfLen messages: a user message on one topic, an
\* assistant message saying "sim" on that topic, an assistant message saying
\* "não" on another topic
MaxConfLen == 7
cTopic == <<R("a", 4)>>
cSimTopic == <<R("S", 1), R("i", 1), R("m", 1), R(" ", 1), R("a", 4)>>
cNaoOther == <<R("n", 1), R("ã", 1), R("o", 1), R(" ", 2), R("b", 5)>>
ConfKinds ==
  {[role |-> sUser, content |-> cTopic],
   [role |-> sAssistant, content |-> cSimTopic],
   [role |-> sAssistant, content |-> cNaoOther]}
ConfLists == UNION {[1..n -> ConfKinds] : n \in 0..MaxConfLen}

InitConf ==
  /\ StoreAtRest /\ file = NoFile /\ BotAtRest
  /\ ctxMsgs \in ConfLists
  /\ ctxEnv = 0 /\ ctxOp = "none" /\ ctxOut = <<>> /\ ctxFlag = FALSE

ApplyIsContextConfused ==
  /\ ctxOp = "none"
  /\ ctxOp' = "isContextConfused"
  /\ ctxFlag' = isContextConfused(ctxMsgs)
  /\ UNCHANGED <<ctxMsgs, ctxEnv, ctxOut>>
  /\ UNCHANGED <<storeVars, botVars, sysVars>>

NextConf == ApplyIsContextConfused

SpecConf == InitConf /\ [][NextConf]_vars

\* the window the claim speaks of: the last ConfusedWindow messages, or all
WindowOfConfusion(messages) ==
  IF Len(messages) <= ConfusedWindow THEN messages
  ELSE SubSeq(messages, Len(messages) - ConfusedWindow + 1, Len(messages))

LowSimilarityPairs(w) ==
  {i \in 1..(Len(w) - 1) : TopicChanged(w[i], w[i + 1])}

\* pairs of assistant messages with no assistant message between them
AssistantPairs(w) ==
  {p \in (1..Len(w)) \X (1..Len(w)) :
     /\ p[1] < p[2]
     /\ w[p[1]].role = sAssistant /\ w[p[2]].role = sAssistant
     /\ \A x \in (p[1] + 1)..(p[2] - 1) : w[x].role # sAssistant}

ContradictoryPairs(w) ==
  {p \in AssistantPairs(w) : Contradicts(w[p[1]], w[p[2]])}

\* C15 as stated: for a list of any length, isContextConfused returns true
\* exactly when its window has more than 3 low-similarity consecutive pairs or
\* more than 1 contradictory consecutive pair of assistant messages.
C15_ConfusedIffShiftsOrContradictions ==
  ctxOp = "isContextConfused" =>
    LET w == WindowOfConfusion(ctxMsgs)
    IN ctxFlag <=> (\/ Cardinality(LowSimilarityPairs(w)) > TopicChangeLimit
                    \/ Cardinality(ContradictoryPairs(w)) > ContradictionLimit)

\* ------------------------------------------- bot.js: the request to the LLM
cleanContext(messages, env) ==
  IF Len(messages) = 0 THEN messages
  ELSE keepRelevantContext(
         removeConversationLoops(removeDuplicateConsecutive(messages)), env)

autoCleanIfConfused(messages, env) ==
  IF isContextConfused(messages) THEN cleanContext(messages, env) ELSE messages

\* getThread(chatId) on store c: the store after it (a missing conversation is
\* created empty) and the clone it returns
getThread(c, chatId) ==
  LET created == [k \in DOMAIN c \cup {chatId} |-> IF k \in DOMAIN c THEN c[k] ELSE <<>>]
  IN [cache |-> created, out |-> created[chatId]]

\* the fixed system message the handler puts first
cSystemPrompt == <<R("V", 1), R("o", 1), R("c", 1), R("ê", 1)>>
SystemPrompt == [role |-> sSystem, content |-> cSystemPrompt]

\* conversations the handler finds: up to MaxListLen messages, user and
\* assistant alternating, all on one topic or changing topic at every message
cOther == <<R("b", 5)>>
ReqConversations ==
  UNION {{[i \in 1..n |-> Message(IF i % 2 = 1 THEN sUser ELSE sAssistant,
                                   IF shifting /\ i % 2 = 0 THEN cOther ELSE cTopic, i)] :
            shifting \in BOOLEAN} : n \in 0..MaxListLen}

\* msg.body of the incoming message; the answer of the LLM
BodyInputs == {Str(<<>>), Str(cTopic), Str(cOther)}
AnswerInputs == {Str(<<>>), Str(cTopic)}

InitReq ==
  /\ \E conv \in ReqConversations :
       cache = IF conv = <<>> THEN EmptyCache ELSE [k \in {kC1} |-> conv]
  /\ file = NoFile /\ clock = FirstTimestamp /\ saves = <<>> /\ load = IdleLoad
  /\ lastCall = NoCall /\ nCalls = 0 /\ appends = LoadedAppends(cache)
  /\ handlers = [sig \in Signals |-> IdleHandler] /\ exited = FALSE
  /\ ctxMsgs = <<>> /\ ctxEnv \in 0..MaxCap /\ ctxOp = "none" /\ ctxOut = <<>>
  /\ ctxFlag = FALSE
  /\ BotAtRest

\* the message handler from pushMessage(id, 'user', msg.body) to the call of
\* askLLM: ctxMsgs is the thread read, ctxFlag whether it was found confused,
\* ctxOut the messages of the request
HandleMessage(id, body) ==
  /\ ctxOp = "none"
  /\ nCalls < MaxCalls
  /\ LET r == pushMessage(cache, Str(id), Str(sUser), body, TRUE, DefaultMaxMessages, clock)
         sv == saveMemory(r.cache)
         pushed == IF r.save THEN sv.cache ELSE r.cache
         thread == getThread(pushed, id)
     IN /\ cache' = thread.cache
        /\ saves' = IF r.save THEN Append(saves, SaveTask("auto", sv)) ELSE saves
        /\ lastCall' = [ret |-> r.ret]
        /\ clock' = IF r.ret = "true" THEN clock + 1 ELSE clock
        /\ appends' = [x \in DOMAIN appends \cup {id} |->
                         IF x # id THEN appends[x]
                         ELSE IF r.ret # "true" THEN AppendsOf(id)
                         ELSE IF r.save THEN 0 ELSE AppendsOf(id) + 1]
        /\ ctxMsgs' = thread.out
        /\ ctxFlag' = isContextConfused(thread.out)
        /\ ctxOut' = <<SystemPrompt>> \o autoCleanIfConfused(thread.out, ctxEnv)
  /\ nCalls' = nCalls + 1
  /\ ctxOp' = "askLLM"
  /\ UNCHANGED <<file, load, handlers, exited, ctxEnv>>
  /\ UNCHANGED <<botVars, sysVars>>

\* askLLM returns: an empty answer is only replied to, any other is pushed as
\* the assistant's message
LLMAnswer(id, answer) ==
  /\ ctxOp = "askLLM"
  /\ LET r == IF Falsy(answer) THEN [ret |-> "none", cache |-> cache, save |-> FALSE]
              ELSE pushMessage(cache, Str(id), Str(sAssistant), answer, TRUE,
                               DefaultMaxMessages, clock)
         sv == saveMemory(r.cache)
     IN /\ cache' = IF r.save THEN sv.cache ELSE r.cache
        /\ saves' = IF r.save THEN Append(saves, SaveTask("auto", sv)) ELSE saves
        /\ lastCall' = IF Falsy(answer) THEN lastCall ELSE [ret |-> r.ret]
        /\ clock' = IF r.ret = "true" THEN clock + 1 ELSE clock
        /\ appends' = IF r.ret # "true" THEN appends
                      ELSE [x \in DOMAIN appends \cup {id} |->
                              IF x # id THEN appends[x]
                              ELSE IF r.save THEN 0 ELSE AppendsOf(id) + 1]
  /\ ctxOp' = "none" /\ ctxMsgs' = <<>> /\ ctxOut' = <<>> /\ ctxFlag' = FALSE
  /\ UNCHANGED <<file, load, nCalls, handlers, exited, ctxEnv>>
  /\ UNCHANGED <<botVars, sysVars>>

NextReq ==
  \/ \E body \in BodyInputs : HandleMessage(kC1, body)
  \/ \E answer \in AnswerInputs : LLMAnswer(kC1, answer)
  \/ \E i \in 1..Len(saves) : WriteDone(i)

SpecReq == InitReq /\ [][NextReq]_vars

\* C16 as stated: a request to the LLM holds, after the system message, at
\* most MAX_HISTORY_MESSAGES conversation messages, confused context or not.
C16_RequestWithinMaxHistory ==
  ctxOp = "askLLM" => Len(ctxOut) - 1 <= MaxHistoryMessages(ctxEnv)

\* ------------------------------------------------------------ rateLimit.js
RATE_LIMIT_WINDOW_MS == 60 * 1000
RATE_LIMIT_HOUR_MS == 60 * 60 * 1000
MAX_STORED_REQUESTS == 100

Put(f, k, v) == [x \in DOMAIN f \cup {k} |-> IF x = k THEN v ELSE f[x]]

\* times.filter(time => t - time < window)
Recent(times, window, t) == SelectSeq(times, LAMBDA x : t - x < window)

NoRequests == [minute |-> <<>>, hour |-> <<>>]

\* RateLimiter.isLimited with > in place of >=
isLimitedOffByOne(req, lim, userPhone, t) ==
  /\ userPhone \in DOMAIN req
  /\ \/ Len(Recent(req[userPhone].minute, RATE_LIMIT_WINDOW_MS, t)) > lim.perMinute
     \/ Len(Recent(req[userPhone].hour, RATE_LIMIT_HOUR_MS, t)) > lim.perHour

\* RateLimiter.hit(userPhone) at time t: the map after it
hit(req, userPhone, t) ==
  LET userData == IF userPhone \in DOMAIN req THEN req[userPhone] ELSE NoRequests
      minute == Append(Recent(userData.minute, RATE_LIMIT_WINDOW_MS, t), t)
      hour == Append(Recent(userData.hour, RATE_LIMIT_HOUR_MS, t), t)
  IN Put(req, userPhone,
         [minute |-> LastN(minute, MAX_STORED_REQUESTS),
          hour |-> LastN(hour, MAX_STORED_REQUESTS)])

\* RateLimiter.isLimited(userPhone) at time t, lim the configured limits
isLimited(req, lim, userPhone, t) ==
  /\ userPhone \in DOMAIN req
  /\ \/ Len(Recent(req[userPhone].minute, RATE_LIMIT_WINDOW_MS, t)) >= lim.perMinute
     \/ Len(Recent(req[userPhone].hour, RATE_LIMIT_HOUR_MS, t)) >= lim.perHour

\* RateLimiter.cleanup() at time t
cleanup(req, t) ==
  LET filtered == [u \in DOMAIN req |->
                     [minute |-> Recent(req[u].minute, RATE_LIMIT_WINDOW_MS, t),
                      hour |-> Recent(req[u].hour, RATE_LIMIT_HOUR_MS, t)]]
      kept == {u \in DOMAIN req : filtered[u].minute # <<>> \/ filtered[u].hour # <<>>}
  IN [u \in kept |-> filtered[u]]

\* ----------------------------------------------------------------- auth.js
SESSION_DURATION == 24 * 60 * 60 * 1000
LOGIN_TIMEOUT == 5 * 60 * 1000
MinUsernameLen == 3
MinPasswordLen == 6

\* the AuthManager's maps as one record
Auth ==
  [users |-> users, sessions |-> sessions, awaitingLogin |-> awaitingLogin,
   loginTimers |-> loginTimers, loginStart |-> loginStart, lastLogin |-> lastLogin,
   typed |-> typed, authFile |-> authFile]

\* hashPassword: the digest of password + salt, never the password itself
hashPassword(password) == [sha256 |-> <<password, salt>>]

\* saveAuth(): auth.json receives users and sessions
saveAuth(a) == [a EXCEPT !.authFile = [users |-> a.users, sessions |-> a.sessions]]

\* isLoggedIn without the expiry test
isLoggedInNoExpiry(a, phoneNumber, t) == phoneNumber \in DOMAIN a.sessions

\* isLoggedIn(phoneNumber) at time t: what it returns
isLoggedIn(a, phoneNumber, t) ==
  phoneNumber \in DOMAIN a.sessions /\ ~(t > a.sessions[phoneNumber].expiresAt)

\* isLoggedIn(phoneNumber) at time t: the maps after it (an expired session is
\* deleted and auth.json saved)
afterIsLoggedIn(a, phoneNumber, t) ==
  IF phoneNumber \in DOMAIN a.sessions /\ t > a.sessions[phoneNumber].expiresAt
  THEN saveAuth([a EXCEPT !.sessions = Without(@, phoneNumber)])
  ELSE a

\* createUser(username, password, createdBy) at time t, typed as arguments of
\* /users create; a throw leaves the maps as they were
createUser(a, username, password, createdBy, t) ==
  LET b == [a EXCEPT !.typed = @ \cup {password}]
  IN IF username \in DOMAIN a.users \/ Len(username) < MinUsernameLen
        \/ Len(password) < MinPasswordLen
     THEN b
     ELSE saveAuth([b EXCEPT !.users =
            Put(@, username, [password |-> hashPassword(password),
                              createdAt |-> t, createdBy |-> createdBy,
                              lastLogin |-> -1])])

\* startLogin(phoneNumber) at time t: the entry and its 5-minute timer
startLogin(a, phoneNumber, t) ==
  [a EXCEPT !.awaitingLogin = Put(@, phoneNumber,
                                  [step |-> "username", username |-> "", timestamp |-> t]),
            !.loginTimers = @ \cup {[phone |-> phoneNumber, at |-> t + LOGIN_TIMEOUT]},
            !.loginStart = Put(@, phoneNumber, t)]

\* processLogin(phoneNumber, input) at time t, for a phone that is awaiting
processLogin(a, phoneNumber, input, t) ==
  LET loginData == a.awaitingLogin[phoneNumber]
      dropped == [a EXCEPT !.awaitingLogin = Without(@, phoneNumber)]
  IN IF t - loginData.timestamp > LOGIN_TIMEOUT THEN dropped
     ELSE IF loginData.step = "username"
     THEN IF input \notin DOMAIN a.users THEN dropped
          ELSE [a EXCEPT !.awaitingLogin =
                  Put(@, phoneNumber,
                      [step |-> "password", username |-> input, timestamp |-> t])]
     ELSE LET username == loginData.username
              withTyped == [dropped EXCEPT !.typed = @ \cup {input}]
          IN IF a.users[username].password # hashPassword(input) THEN withTyped
             ELSE saveAuth(
                    [withTyped EXCEPT
                       !.sessions = Put(@, phoneNumber,
                                        [username |-> username,
                                         expiresAt |-> t + SESSION_DURATION,
                                         loginAt |-> t]),
                       !.users = Put(@, username, [a.users[username] EXCEPT !.lastLogin = t]),
                       !.lastLogin = Put(@, phoneNumber, t)])

\* logout(phoneNumber)
logout(a, phoneNumber) ==
  IF phoneNumber \in DOMAIN a.sessions
  THEN saveAuth([a EXCEPT !.sessions = Without(@, phoneNumber),
                          !.lastLogin = Without(@, phoneNumber)])
  ELSE a

\* cleanupSessions() at time t
cleanupSessions(a, t) ==
  LET live == {p \in DOMAIN a.sessions : ~(a.sessions[p].expiresAt <= t)}
  IN IF live = DOMAIN a.sessions THEN a
     ELSE saveAuth([a EXCEPT !.sessions = [p \in live |-> a.sessions[p]]])

\* ------------------------------------------- bot.js: the message handler
DUPLICATE_TIMEOUT == 5000
AdminPhone == "5511"
UserPhone == "5522"
ADMIN_NUMBERS == {AdminPhone}

MaxMsgs == 5
MaxAdvances == 2

\* a body is its words; msg.body.startsWith('/')
StartsWithSlash(body) ==
  body # <<>> /\ body[1] \in {"/login", "/logout", "/users", "/status"}

SetAuth(a) ==
  /\ users' = a.users /\ sessions' = a.sessions /\ awaitingLogin' = a.awaitingLogin
  /\ loginTimers' = a.loginTimers /\ loginStart' = a.loginStart
  /\ lastLogin' = a.lastLogin /\ typed' = a.typed /\ authFile' = a.authFile

\* adminCommands[cmd].handler, for the commands that touch the AuthManager
adminCommand(a, body, sender, t) ==
  IF body[1] = "/users" /\ Len(body) >= 4 /\ body[2] = "create"
  THEN createUser(a, body[3], body[4], sender, t)
  ELSE a

\* userCommands[cmd].handler
userCommand(a, body, sender, t) ==
  IF body[1] = "/login"
  THEN IF isLoggedIn(a, sender, t) THEN a ELSE startLogin(a, sender, t)
  ELSE IF body[1] = "/logout" THEN logout(a, sender)
  ELSE a

\* client.on('message') for a private chat, up to rateLimiter.hit; what
\* follows the hit is HandleMessage. Every logActivity is taken as written.
OnMessage(sender, body) ==
  /\ nMsgs < MaxMsgs
  /\ nMsgs' = nMsgs + 1
  /\ LET key == <<sender, body>>
         received == [type |-> "mensagem", body |-> body]
         dup == key \in DOMAIN answered /\ nowMs - answered[key] < DUPLICATE_TIMEOUT
         limited == isLimited(requests, limits, sender, nowMs)
         loginInput == sender \in DOMAIN awaitingLogin /\ ~StartsWithSlash(body)
         checked == afterIsLoggedIn(Auth, sender, nowMs)
         isAdmin == sender \in ADMIN_NUMBERS \/ isLoggedIn(Auth, sender, nowMs)
     IN IF dup
        THEN /\ SetAuth(Auth)
             /\ activityFile' = activityFile \cup {received}
             /\ lastMsg' = [sender |-> sender, at |-> nowMs, route |-> "duplicate"]
             /\ UNCHANGED <<answered, requests, hitLog>>
        ELSE IF limited
        THEN /\ SetAuth(Auth)
             /\ activityFile' = activityFile \cup {received}
             /\ answered' = Put(answered, key, nowMs)
             /\ lastMsg' = [sender |-> sender, at |-> nowMs, route |-> "limited"]
             /\ UNCHANGED <<requests, hitLog>>
        ELSE IF loginInput
        THEN /\ SetAuth(processLogin(Auth, sender, body[1], nowMs))
             /\ activityFile' = activityFile \cup {received}
             /\ answered' = Put(answered, key, nowMs)
             /\ lastMsg' = [sender |-> sender, at |-> nowMs, route |-> "login"]
             /\ UNCHANGED <<requests, hitLog>>
        ELSE IF isAdmin /\ StartsWithSlash(body)
        THEN /\ SetAuth(adminCommand(checked, body, sender, nowMs))
             /\ activityFile' = activityFile \cup {received, [type |-> "comando", body |-> body]}
             /\ answered' = Put(answered, key, nowMs)
             /\ lastMsg' = [sender |-> sender, at |-> nowMs, route |-> "admin"]
             /\ UNCHANGED <<requests, hitLog>>
        ELSE IF StartsWithSlash(body)
        THEN /\ SetAuth(userCommand(checked, body, sender, nowMs))
             /\ activityFile' = activityFile \cup {received}
             /\ answered' = Put(answered, key, nowMs)
             /\ lastMsg' = [sender |-> sender, at |-> nowMs, route |-> "user"]
             /\ UNCHANGED <<requests, hitLog>>
        ELSE /\ SetAuth(checked)
             /\ activityFile' = activityFile \cup {received}
             /\ answered' = Put(answered, key, nowMs)
             /\ requests' = hit(requests, sender, nowMs)
             /\ hitLog' = Put(hitLog, sender,
                              Append(IF sender \in DOMAIN hitLog THEN hitLog[sender] ELSE <<>>,
                                     nowMs))
             /\ lastMsg' = [sender |-> sender, at |-> nowMs, route |-> "chat"]
  /\ UNCHANGED <<nowMs, limits, nAdv>>
  /\ UNCHANGED <<storeVars, ctxVars, sysVars>>

\* the setTimeout callback of startLogin runs
LoginTimerFires(timer) ==
  /\ timer \in loginTimers
  /\ timer.at <= nowMs
  /\ loginTimers' = loginTimers \ {timer}
  /\ awaitingLogin' = IF timer.phone \in DOMAIN awaitingLogin
                      THEN Without(awaitingLogin, timer.phone) ELSE awaitingLogin
  /\ UNCHANGED <<nowMs, answered, limits, requests, hitLog, users, sessions, loginStart,
                 lastLogin, typed, authFile, activityFile, lastMsg, nMsgs, nAdv>>
  /\ UNCHANGED <<storeVars, ctxVars, sysVars>>

\* the delays after which the pending timers are due
TimerDelays == {timer.at - nowMs : timer \in loginTimers}

\* time passes, no further than the next timer that is due
Advance(d) ==
  /\ nAdv < MaxAdvances
  /\ d > 0
  /\ \A timer \in loginTimers : nowMs + d <= timer.at
  /\ nowMs' = nowMs + d
  /\ nAdv' = nAdv + 1
  /\ UNCHANGED <<answered, limits, requests, hitLog, users, sessions, awaitingLogin,
                 loginTimers, loginStart, lastLogin, typed, authFile, activityFile,
                 lastMsg, nMsgs>>
  /\ UNCHANGED <<storeVars, ctxVars, sysVars>>

\* the setInterval of the AuthManager: cleanupSessions()
CleanupSessions ==
  /\ SetAuth(cleanupSessions(Auth, nowMs))
  /\ UNCHANGED <<nowMs, answered, limits, requests, hitLog, activityFile, lastMsg,
                 nMsgs, nAdv>>
  /\ UNCHANGED <<storeVars, ctxVars, sysVars>>

\* the setInterval of the RateLimiter: cleanup()
RateCleanup ==
  /\ requests' = cleanup(requests, nowMs)
  /\ UNCHANGED <<nowMs, answered, limits, hitLog, users, sessions, awaitingLogin,
                 loginTimers, loginStart, lastLogin, typed, authFile, activityFile,
                 lastMsg, nMsgs, nAdv>>
  /\ UNCHANGED <<storeVars, ctxVars, sysVars>>

\* ------------------------------------------------------- login and sessions
AuthInputs ==
  {<<AdminPhone, <<"/users", "create", "joao", "secret1">>>>,
   <<UserPhone, <<"/login">>>>,
   <<UserPhone, <<"joao">>>>,
   <<UserPhone, <<"secret1">>>>,
   <<UserPhone, <<"/status">>>>}

FourMinutes == 4 * 60 * 1000
AuthDeltas == {FourMinutes, SESSION_DURATION}

InitAuth ==
  /\ StoreAtRest /\ file = NoFile
  /\ CtxAtRest
  /\ BotAtRest

NextAuth ==
  \/ \E in \in AuthInputs : OnMessage(in[1], in[2])
  \/ \E timer \in loginTimers : LoginTimerFires(timer)
  \/ \E d \in AuthDeltas \cup TimerDelays : Advance(d)
  \/ CleanupSessions

SpecAuth == InitAuth /\ [][NextAuth]_vars

\* C18: a message is dispatched to handleAdmin only when its sender is in
\* ADMIN_NUMBERS or logged in successfully no longer than SESSION_DURATION
\* before the message; after that time no command of the sender is an admin
\* command until the next successful login.
C18_AdminOnlyWithLiveSession ==
  [][(nMsgs' = nMsgs + 1 /\ lastMsg'.route = "admin")
       => \/ lastMsg'.sender \in ADMIN_NUMBERS
          \/ /\ lastMsg'.sender \in DOMAIN lastLogin
             /\ nowMs <= lastLogin[lastMsg'.sender] + SESSION_DURATION]_vars

\* a logged-in user's command went to handleAdmin
C18_Witness ==
  /\ lastMsg.route = "admin"
  /\ lastMsg.sender \notin ADMIN_NUMBERS
  /\ lastMsg.sender \in DOMAIN sessions

\* C19: no entry of logs/activity.json holds a word that was typed as a
\* password (in the password step of /login or as the argument of
\* /users create).
C19_NoPlainPasswordPersisted ==
  \A entry \in activityFile :
    \A i \in 1..Len(entry.body) : entry.body[i] \notin typed

\* C20: the 5-minute timer removes a pending login only when 5 minutes have
\* passed since the /login that started it.
C20_LoginPendingForFiveMinutes ==
  [][\A timer \in loginTimers :
       (LoginTimerFires(timer) /\ timer.phone \in DOMAIN awaitingLogin)
         => nowMs >= loginStart[timer.phone] + LOGIN_TIMEOUT]_vars

\* ------------------------------------------------------------ rate limiting
\* MAX_REQUESTS_PER_MINUTE and MAX_REQUESTS_PER_HOUR as set in the environment
PerMinuteEnv == 2
PerHourEnv == 3

RateBodies == {<<"oi">>, <<"ola">>, <<"tudo">>}
RateInputs == ({UserPhone} \X RateBodies) \cup {<<AdminPhone, <<"oi">>>>}
RateDeltas == {1, RATE_LIMIT_WINDOW_MS - 1, RATE_LIMIT_HOUR_MS - RATE_LIMIT_WINDOW_MS}

InitRate ==
  /\ StoreAtRest /\ file = NoFile
  /\ CtxAtRest
  /\ BotStart([perMinute |-> PerMinuteEnv, perHour |-> PerHourEnv])

NextRate ==
  \/ \E in \in RateInputs : OnMessage(in[1], in[2])
  \/ \E d \in RateDeltas : Advance(d)
  \/ RateCleanup

SpecRate == InitRate /\ [][NextRate]_vars

\* the hits of a user in the window of the given length that ends with hit i
HitsInWindow(log, i, window) == {j \in 1..i : log[i] - log[j] < window}

MaxRestarts == 1

\* loadAuth(): the sessions of auth.json that have not expired
LoadedSessions(f, t) ==
  LET live == {p \in DOMAIN f.sessions : f.sessions[p].expiresAt > t}
  IN [p \in live |-> f.sessions[p]]

\* the process ends and a new one starts: new AuthManager() draws its salt,
\* new RateLimiter(), an empty `answered`, then initialize() awaits loadAuth().
\* The conversation store is at rest in this specification.
Restart(newSalt) ==
  /\ restarts < MaxRestarts
  /\ restarts' = restarts + 1
  /\ salt' = newSalt
  /\ users' = authFile.users
  /\ sessions' = LoadedSessions(authFile, nowMs)
  /\ awaitingLogin' = <<>>
  /\ loginTimers' = {}
  /\ answered' = <<>>
  /\ requests' = <<>>
  /\ UNCHANGED <<nowMs, limits, hitLog, loginStart, lastLogin, typed, authFile,
                 activityFile, lastMsg, nMsgs, nAdv>>
  /\ UNCHANGED <<storeVars, ctxVars, apiVars, backupVars, llmVars, chatVars, cbVars>>

InitRestart ==
  /\ StoreAtRest /\ file = NoFile
  /\ CtxAtRest
  /\ BotAtRest

NextRestart ==
  \/ \E in \in AuthInputs : OnMessage(in[1], in[2])
  \/ \E newSalt \in Salts : Restart(newSalt)

SpecRestart == InitRestart /\ [][NextRestart]_vars

\* C21: when the password given to /users create for a user is typed in the
\* password step of a login as that user, the login succeeds, also after a
\* restart of the process.
C21_LoginSurvivesRestart ==
  [][(/\ OnMessage(UserPhone, <<"secret1">>)
      /\ lastMsg'.route = "login"
      /\ awaitingLogin[UserPhone].step = "password"
      /\ awaitingLogin[UserPhone].username = "joao"
      /\ "joao" \in DOMAIN users)
       => UserPhone \in DOMAIN sessions']_vars

\* ------------------------------------------------ rate limiting and admins
BypassInputs ==
  ({AdminPhone} \X (RateBodies \cup {<<"/status">>})) \cup {<<UserPhone, <<"oi">>>>}

InitBypass ==
  /\ StoreAtRest /\ file = NoFile
  /\ CtxAtRest
  /\ BotStart([perMinute |-> PerMinuteEnv, perHour |-> PerHourEnv])

NextBypass ==
  \/ \E in \in BypassInputs : OnMessage(in[1], in[2])
  \/ \E d \in RateDeltas : Advance(d)

SpecBypass == InitBypass /\ [][NextBypass]_vars

\* C22: no message of a sender that is in ADMIN_NUMBERS or logged in is
\* dropped by the rate-limit check.
C22_AdminsBypassRateLimit ==
  [][(nMsgs' = nMsgs + 1 /\ lastMsg'.route = "limited")
       => /\ lastMsg'.sender \notin ADMIN_NUMBERS
          /\ ~isLoggedIn(Auth, lastMsg'.sender, nowMs)]_vars

\* ------------------------------------------------- server.js: the REST API
MaxApi == 4
ClientIps == {"10.0.0.1", "10.0.0.2"}

\* app.use('/api/', ...): a request of client ip reaches the rate-limiting
\* middleware; isLimited is given the ip as its key (its second argument is
\* not a parameter of isLimited). 429, or next() and the endpoint answers.
ApiRequest(ip) ==
  /\ nApi < MaxApi
  /\ nApi' = nApi + 1
  /\ IF isLimited(requests, limits, ip, nowMs)
     THEN /\ apiLast' = [ip |-> ip, status |-> 429]
          /\ UNCHANGED apiServed
     ELSE /\ apiLast' = [ip |-> ip, status |-> 200]
          /\ apiServed' = Put(apiServed, ip,
                              Append(IF ip \in DOMAIN apiServed THEN apiServed[ip] ELSE <<>>,
                                     nowMs))
  /\ UNCHANGED <<storeVars, ctxVars, botVars, procVars, backupVars, llmVars, chatVars, cbVars>>

InitApi ==
  /\ StoreAtRest /\ file = NoFile
  /\ CtxAtRest
  /\ BotStart([perMinute |-> PerMinuteEnv, perHour |-> PerHourEnv])

NextApi ==
  \/ \E ip \in ClientIps : ApiRequest(ip)
  \/ \E d \in RateDeltas : Advance(d)

SpecApi == InitApi /\ [][NextApi]_vars

\* C23: of the requests of a client IP, those passed on to the endpoints
\* within any window of 60 seconds are at most the limit; the excess ones
\* are answered 429.
C23_ApiRequestsWithinLimit ==
  \A ip \in DOMAIN apiServed :
    \A i \in 1..Len(apiServed[ip]) :
      Cardinality(HitsInWindow(apiServed[ip], i, RATE_LIMIT_WINDOW_MS)) <= limits.perMinute

\* --------------------------------------------------------------- backup.js
\* createBackup() as /backup and the 6-hour timer call it: exportMemory() and
\* JSON.stringify take the store as it is, the file is written
CreateBackup ==
  /\ nCalls < MaxCalls
  /\ nCalls' = nCalls + 1
  /\ backups' = backups \cup {cache}
  /\ UNCHANGED restore
  /\ UNCHANGED <<cache, file, clock, saves, load, lastCall, appends, handlers, exited>>
  /\ UNCHANGED <<ctxVars, botVars, procVars, apiVars, llmVars, chatVars, cbVars>>

\* restoreBackup(backupId) up to the fs.writeFile of its createBackup: the
\* backup to restore was read, the current store was serialized
RestoreStart(target) ==
  /\ restore.pc = "idle"
  /\ nCalls < MaxCalls
  /\ nCalls' = nCalls + 1
  /\ target \in backups
  /\ restore' = [pc |-> "backup", target |-> target, snapshot |-> cache]
  /\ UNCHANGED backups
  /\ UNCHANGED <<cache, file, clock, saves, load, lastCall, appends, handlers, exited>>
  /\ UNCHANGED <<ctxVars, botVars, procVars, apiVars, llmVars, chatVars, cbVars>>

\* the rest of restoreBackup: the write of 'Backup antes de restauração'
\* completes, cleanupOldBackups returns, importMemory replaces the store
RestoreImport ==
  /\ restore.pc = "backup"
  /\ backups' = backups \cup {restore.snapshot}
  /\ cache' = restore.target
  /\ appends' = LoadedAppends(cache')
  /\ restore' = RestoreIdle
  /\ UNCHANGED <<file, clock, saves, load, lastCall, nCalls, handlers, exited>>
  /\ UNCHANGED <<ctxVars, botVars, procVars, apiVars, llmVars, chatVars, cbVars>>

NextBackup ==
  \/ \E in \in GoodChatIds \X {GoodRole} \X GoodContents : Push(in[1], in[2], in[3])
  \/ \E i \in 1..Len(saves) : WriteDone(i)
  \/ ClearMemory
  \/ CreateBackup
  \/ \E target \in backups : RestoreStart(target)
  \/ RestoreImport

SpecBackup == Init /\ [][NextBackup]_vars

\* C24: when clearMemory or restoreBackup replaces the store, the store it
\* replaces is held by a backup file.
C24_BackupBeforeDestruction ==
  [][((ClearMemory \/ RestoreImport) /\ cache' # cache) => cache \in backups']_vars

\* ----------------------------------------------------------- llm.js: askLLM
MaxRetriesCfg == 3

\* what an attempt can meet: a valid answer, or an error with its name and
\* the words of its message (message.includes(w) is w \in words)
OkResponse == [kind |-> "ok", name |-> "none", status |-> "none", words |-> {}]
FetchFailed == [kind |-> "error", name |-> "TypeError", status |-> "none",
                words |-> {"fetch", "failed"}]
Aborted == [kind |-> "error", name |-> "AbortError", status |-> "none",
            words |-> {"aborted"}]
BadFormat == [kind |-> "error", name |-> "Error", status |-> "none",
              words |-> {"Formato", "inválido"}]
HttpStatuses == {"400", "401", "500", "502", "503"}
ErrorTexts == {{"Bad", "Request"}, {"limit", "is", "500", "tokens"}}
\* throw new Error(`HTTP ${response.status}: ${errorText}`)
HttpError(status, text) ==
  [kind |-> "error", name |-> "Error", status |-> status, words |-> {"HTTP", status} \cup text]
Responses ==
  {OkResponse, FetchFailed, Aborted, BadFormat}
    \cup {HttpError(status, text) : status \in HttpStatuses, text \in ErrorTexts}

isTimeoutError(error) == error.name = "AbortError"
isNetworkError(error) == "fetch" \in error.words \/ isTimeoutError(error)
ShouldRetry(error) ==
  isNetworkError(error) \/ "500" \in error.words \/ "502" \in error.words
    \/ "503" \in error.words

\* the bindings of the module llm.js, and the identifiers the branch of the
\* last attempt evaluates
LlmBindings ==
  {"llmConfig", "envPath", "__dirname", "logger", "errorLogger", "performanceMonitor",
   "measureTime", "fs", "path", "config", "fileURLToPath"}
LastAttemptRefs ==
  {"errorLogger", "ENDPOINT", "MODEL", "MAX_RETRIES", "REQUEST_TIMEOUT", "logger"}

\* askLLM(messages) is called: the for loop is entered with attempt = 1
AskLLM ==
  /\ llm.pc \in {"idle", "returned", "thrown"}
  /\ llm' = [pc |-> IF 1 <= llmMax THEN "ready" ELSE "returned",
             attempt |-> 1, sent |-> 0, startMax |-> llmMax, thrown |-> "none"]
  /\ llmLogged' = {}
  /\ UNCHANGED llmMax
  /\ UNCHANGED <<storeVars, ctxVars, botVars, procVars, apiVars, backupVars, chatVars, cbVars>>

\* await fetch(...): the request of this attempt is sent
Fetch ==
  /\ llm.pc = "ready"
  /\ llm' = [llm EXCEPT !.pc = "inflight", !.sent = @ + 1]
  /\ UNCHANGED <<llmMax, llmLogged>>
  /\ UNCHANGED <<storeVars, ctxVars, botVars, procVars, apiVars, backupVars, chatVars, cbVars>>

\* the attempt ends: the answer is returned, or the catch block runs
Respond(r) ==
  /\ llm.pc = "inflight"
  /\ IF r.kind = "ok"
     THEN /\ llm' = [llm EXCEPT !.pc = "returned"]
          /\ UNCHANGED llmLogged
     ELSE IF llm.attempt = llmMax
     THEN IF LastAttemptRefs \subseteq LlmBindings
          THEN /\ llmLogged' = llmLogged \cup {"llm_request_failed"}
               /\ llm' = [llm EXCEPT !.pc = "thrown",
                            !.thrown = IF isTimeoutError(r) THEN "Timeout após"
                                       ELSE "Falha na comunicação com LLM"]
          ELSE /\ llm' = [llm EXCEPT !.pc = "thrown", !.thrown = "ReferenceError"]
               /\ UNCHANGED llmLogged
     ELSE IF ShouldRetry(r)
     THEN /\ llm' = [llm EXCEPT !.pc = "waiting"]
          /\ UNCHANGED llmLogged
     ELSE /\ llm' = [llm EXCEPT !.pc = "thrown", !.thrown = "the attempt's error"]
          /\ UNCHANGED llmLogged
  /\ UNCHANGED llmMax
  /\ UNCHANGED <<storeVars, ctxVars, botVars, procVars, apiVars, backupVars, chatVars, cbVars>>

\* the retry delay is over: attempt++ and the loop test
DelayDone ==
  /\ llm.pc = "waiting"
  /\ llm' = [llm EXCEPT !.attempt = @ + 1,
                        !.pc = IF llm.attempt + 1 <= llmMax THEN "ready" ELSE "returned"]
  /\ UNCHANGED <<llmMax, llmLogged>>
  /\ UNCHANGED <<storeVars, ctxVars, botVars, procVars, apiVars, backupVars, chatVars, cbVars>>

\* fs.watchFile: .env was edited, loadEnvConfig() replaces llmConfig
EnvChange(maxRetries) ==
  /\ maxRetries # llmMax
  /\ llmMax' = maxRetries
  /\ UNCHANGED <<llm, llmLogged>>
  /\ UNCHANGED <<storeVars, ctxVars, botVars, procVars, apiVars, backupVars, chatVars, cbVars>>

InitLLM ==
  /\ StoreAtRest /\ file = NoFile
  /\ CtxAtRest
  /\ BotAtRest

NextLLM ==
  \/ AskLLM
  \/ Fetch
  \/ \E r \in Responses : Respond(r)
  \/ DelayDone
  \/ \E maxRetries \in 1..MaxRetriesCfg : EnvChange(maxRetries)

SpecLLM == InitLLM /\ [][NextLLM]_vars

\* an HTTP 500/502/503 answer, a network error or a timeout
Transient(r) ==
  \/ r.name \in {"TypeError", "AbortError"}
  \/ r.status \in {"500", "502", "503"}

\* C25: a call sends at most the MAX_RETRIES of its start, and an attempt is
\* followed by another one only after a network error, a timeout or an HTTP
\* 500/502/503 answer.
C25_BoundedRetries ==
  [][/\ llm'.sent <= llm'.startMax
     /\ \A r \in Responses :
          (Respond(r) /\ llm'.pc = "waiting") => Transient(r)]_vars

\* C27: when the last allowed attempt fails, the failure is recorded with
\* context llm_request_failed and the error thrown is 'Timeout após ...' for
\* a timeout and 'Falha na comunicação com LLM: ...' otherwise.
C27_LastFailureLoggedAndThrown ==
  [][\A r \in Responses :
       (Respond(r) /\ r.kind = "error" /\ llm.attempt = llmMax) =>
         /\ "llm_request_failed" \in llmLogged'
         /\ llm'.pc = "thrown"
         /\ llm'.thrown = IF r.name = "AbortError" THEN "Timeout após"
                          ELSE "Falha na comunicação com LLM"]_vars

\* ------------------------------- bot.js: message handlers that run together
ChatBodies == {Str(cTopic), Str(cOther)}
ChatAnswers == {Str(<<>>), Str(cTopic)}

\* the bindings the catch block of the handler can see (module level, the
\* parameter msg, the caught error) and the identifiers it evaluates
CatchScope ==
  {"pkg", "Client", "LocalAuth", "qrcode", "logger", "loadMemory", "saveMemory",
   "pushMessage", "getThread", "clearMemory", "getMemoryStats", "askLLM",
   "rateLimiter", "isRateLimited", "commands", "createBackup", "errorLogger",
   "withErrorHandling", "ContextManager", "authManager", "startAPIServer",
   "updateBotStatus", "logActivity", "answered", "ADMIN_NUMBERS",
   "DUPLICATE_TIMEOUT", "GROUP_RANDOM_CHANCE", "client", "msg", "error"}
CatchRefs == {"errorLogger", "id", "sender", "msg", "chat", "logger"}

\* the catch block (lines 235-254) after a failure inside the try block. The
\* rejection that escapes is unhandled: the process ends or goes on,
\* depending on the Node version.
CatchBlock(running) ==
  IF CatchRefs \subseteq CatchScope
  THEN [failed |-> TRUE, logged |-> TRUE, replied |-> TRUE, escaped |-> FALSE,
        running |-> TRUE]
  ELSE [failed |-> TRUE, logged |-> FALSE, replied |-> FALSE, escaped |-> TRUE,
        running |-> running]

\* a private message of chat id arrives: the handler pushes it, reads the
\* thread, builds the request and awaits askLLM
Receive(id, body) ==
  /\ nCalls < MaxCalls
  /\ nCalls' = nCalls + 1
  /\ LET r == pushMessage(cache, Str(id), Str(sUser), body, TRUE, DefaultMaxMessages, clock)
         sv == saveMemory(r.cache)
         pushed == IF r.save THEN sv.cache ELSE r.cache
         thread == getThread(pushed, id)
     IN /\ cache' = thread.cache
        /\ saves' = IF r.save THEN Append(saves, SaveTask("auto", sv)) ELSE saves
        /\ lastCall' = [ret |-> r.ret]
        /\ clock' = IF r.ret = "true" THEN clock + 1 ELSE clock
        /\ appends' = [x \in DOMAIN appends \cup {id} |->
                         IF x # id THEN appends[x]
                         ELSE IF r.ret # "true" THEN AppendsOf(id)
                         ELSE IF r.save THEN 0 ELSE AppendsOf(id) + 1]
        /\ pending' = pending \cup
             {[user |-> clock,
               context |-> <<SystemPrompt>> \o autoCleanIfConfused(thread.out, ctxEnv)]}
  /\ UNCHANGED <<replyTo, hOutcome>>
  /\ UNCHANGED <<file, load, handlers, exited>>
  /\ UNCHANGED <<ctxVars, botVars, procVars, apiVars, backupVars, llmVars, cbVars>>

\* askLLM returns to handler h: an empty answer is only replied to, any
\* other is pushed as the assistant's message
Answer(id, h, answer) ==
  /\ h \in pending
  /\ pending' = pending \ {h}
  /\ LET r == IF Falsy(answer) THEN [ret |-> "none", cache |-> cache, save |-> FALSE]
              ELSE pushMessage(cache, Str(id), Str(sAssistant), answer, TRUE,
                               DefaultMaxMessages, clock)
         sv == saveMemory(r.cache)
     IN /\ cache' = IF r.save THEN sv.cache ELSE r.cache
        /\ saves' = IF r.save THEN Append(saves, SaveTask("auto", sv)) ELSE saves
        /\ lastCall' = IF Falsy(answer) THEN lastCall ELSE [ret |-> r.ret]
        /\ clock' = IF r.ret = "true" THEN clock + 1 ELSE clock
        /\ appends' = IF r.ret # "true" THEN appends
                      ELSE [x \in DOMAIN appends \cup {id} |->
                              IF x # id THEN appends[x]
                              ELSE IF r.save THEN 0 ELSE AppendsOf(id) + 1]
        /\ replyTo' = IF r.ret = "true" THEN Put(replyTo, clock, h.user) ELSE replyTo
  /\ UNCHANGED hOutcome
  /\ UNCHANGED <<file, load, nCalls, handlers, exited>>
  /\ UNCHANGED <<ctxVars, botVars, procVars, apiVars, backupVars, llmVars, cbVars>>

\* askLLM throws in handler h (its retries are used up): the catch block
AskFails(h, running) ==
  /\ h \in pending
  /\ pending' = pending \ {h}
  /\ hOutcome' = CatchBlock(running)
  /\ UNCHANGED replyTo
  /\ UNCHANGED <<storeVars, ctxVars, botVars, procVars, apiVars, backupVars, llmVars, cbVars>>

\* msg.getChat() rejects at the start of a handler: the catch block
GetChatFails(running) ==
  /\ nCalls < MaxCalls
  /\ hOutcome' = CatchBlock(running)
  /\ UNCHANGED <<pending, replyTo>>
  /\ UNCHANGED <<storeVars, ctxVars, botVars, procVars, apiVars, backupVars, llmVars, cbVars>>

InitChat ==
  /\ StoreAtRest /\ file = NoFile
  /\ CtxAtRest
  /\ BotAtRest

NextChat ==
  /\ hOutcome.running
  /\ \/ \E body \in ChatBodies : Receive(kC1, body)
     \/ \E h \in pending, answer \in ChatAnswers : Answer(kC1, h, answer)
     \/ \E h \in pending, running \in BOOLEAN : AskFails(h, running)
     \/ \E running \in BOOLEAN : GetChatFails(running)
     \/ \E i \in 1..Len(saves) : WriteDone(i)

SpecChat == InitChat /\ [][NextChat]_vars

\* C26: a handler that failed recorded the error through errorLogger, sent
\* the fallback reply and let no exception escape; the process is running.
C26_HandlerAbsorbsFailure ==
  hOutcome.failed =>
    /\ hOutcome.logged
    /\ hOutcome.replied
    /\ ~hOutcome.escaped
    /\ hOutcome.running

\* the user messages of a list of messages, as positions
UserPositions(messages) == {i \in 1..Len(messages) : messages[i].role = sUser}

\* C29: every stored assistant message comes right after the user message it
\* answers, and in every request each user message but the last is followed
\* by the assistant's reply to it.
C29_RepliesFollowTheirMessage ==
  /\ \A k \in DOMAIN cache :
       \A i \in 1..Len(cache[k]) :
         cache[k][i].role = sAssistant =>
           /\ i > 1
           /\ cache[k][i].timestamp \in DOMAIN replyTo
           /\ cache[k][i - 1].timestamp = replyTo[cache[k][i].timestamp]
  /\ \A h \in pending :
       \A i \in UserPositions(h.context) :
         (\E j \in UserPositions(h.context) : j > i) =>
           \E j \in 1..Len(h.context) :
             /\ h.context[j].role = sAssistant
             /\ h.context[j].timestamp \in DOMAIN replyTo
             /\ replyTo[h.context[j].timestamp] = h.context[i].timestamp

\* ------------------------------------------------ saveMemory calls that overlap
\* the store with its three callers of saveMemory: the 30-second timer, the
\* automatic save of pushMessage and clearMemory
NextSaves ==
  \/ \E in \in GoodChatIds \X {GoodRole} \X GoodContents : Push(in[1], in[2], in[3])
  \/ TimerSave
  \/ ClearMemory
  \/ \E i \in 1..Len(saves) : WriteDone(i)

SpecSaves == Init /\ [][NextSaves]_vars

\* C28: when the last outstanding save completes and the store has not
\* changed since the file last held its serialization, the file holds the
\* serialization of the store.
C28_FileIsLatestSnapshot ==
  [][\A i \in 1..Len(saves) :
       (/\ WriteDone(i)
        /\ saves' = <<>>
        /\ load.pc = "idle"
        /\ file = Serialize(cache))
       => file' = Serialize(cache')]_vars

\* -------------------------------------- errorHandler.js: the circuit breaker
MaxErrors == 11
MaxOther == 2
BREAKER_THRESHOLD == 5
BREAKER_TIMEOUT == 5 * 60 * 1000
AUTOFIX_INTERVAL == 10 * 60 * 1000

\* an error message as the set of the words in it
MsgFetch == {"fetch", "failed"}
MsgTimeout == {"request", "timeout"}
ErrorInputs == {MsgFetch, MsgTimeout}

MessageIncludes(message, words) == message \cap words # {}

\* ErrorAnalyzer.analyzeError: category and severity from the message
analyzeError(message) ==
  LET found ==
        IF MessageIncludes(message, {"fetch", "econnrefused", "enotfound"})
          THEN <<"connection", "high">>
        ELSE IF MessageIncludes(message, {"aborted", "timeout"}) THEN <<"timeout", "medium">>
        ELSE IF MessageIncludes(message, {"qr", "auth"}) THEN <<"whatsapp_auth", "high">>
        ELSE IF MessageIncludes(message, {"memory", "heap", "enomem"}) THEN <<"memory", "high">>
        ELSE IF MessageIncludes(message, {"enoent", "file", "directory"})
          THEN <<"filesystem", "medium">>
        ELSE IF MessageIncludes(message, {"rate", "limit", "429"}) THEN <<"rate_limit", "low">>
        ELSE IF MessageIncludes(message, {"400", "401", "500"}) THEN <<"api_error", "high">>
        ELSE IF MessageIncludes(message, {"json", "parse", "syntax"}) THEN <<"parsing", "medium">>
        ELSE <<"unknown", "medium">>
  IN [errorType |-> "Error", message |-> message,
      category |-> found[1], severity |-> found[2]]

Categories == {analyzeError(message).category : message \in ErrorInputs}

NewBreaker == [state |-> "closed", failureCount |-> 0, lastFailure |-> 0, nextAttempt |-> 0]

\* this.circuitBreakers.get(category), a category without a breaker being closed
BreakerOf(cb, category) == IF category \in DOMAIN cb THEN cb[category] ELSE NewBreaker

\* updateCircuitBreaker that opens whatever the state is
updateCircuitBreakerReopens(cb, analysis, now) ==
  LET breaker == BreakerOf(cb, analysis.category)
      counted == IF analysis.severity = "high"
                 THEN [breaker EXCEPT !.failureCount = @ + 1, !.lastFailure = now]
                 ELSE breaker
      opened == IF /\ analysis.severity = "high"
                   /\ counted.failureCount >= BREAKER_THRESHOLD
                THEN [counted EXCEPT !.state = "open", !.nextAttempt = now + BREAKER_TIMEOUT]
                ELSE counted
  IN Put(cb, analysis.category, opened)

updateCircuitBreaker(cb, analysis, now) ==
  LET breaker == BreakerOf(cb, analysis.category)
      counted == IF analysis.severity = "high"
                 THEN [breaker EXCEPT !.failureCount = @ + 1, !.lastFailure = now]
                 ELSE breaker
      opened == IF /\ analysis.severity = "high"
                   /\ counted.failureCount >= BREAKER_THRESHOLD
                   /\ counted.state = "closed"
                THEN [counted EXCEPT !.state = "open", !.nextAttempt = now + BREAKER_TIMEOUT]
                ELSE counted
  IN Put(cb, analysis.category, opened)

getCircuitBreakerStatus(cb, category, now) ==
  IF category \notin DOMAIN cb THEN [breakers |-> cb, status |-> "closed"]
  ELSE IF cb[category].state = "open" /\ now > cb[category].nextAttempt
  THEN [breakers |-> Put(cb, category,
                         [cb[category] EXCEPT !.state = "half-open", !.failureCount = 0]),
        status |-> "half-open"]
  ELSE [breakers |-> cb, status |-> cb[category].state]

generateErrorKey(analysis) == <<analysis.category, analysis.errorType, analysis.message>>

CountOf(counts, key) == IF key \in DOMAIN counts THEN counts[key] ELSE 0

shouldTriggerAutoFix(cb, counts, analysis) ==
  IF analysis.category \in DOMAIN cb /\ cb[analysis.category].state = "open"
  THEN FALSE
  ELSE analysis.severity = "high" \/ CountOf(counts, generateErrorKey(analysis)) >= 3

\* logError up to `await this.saveToFile(errorRecord)`
LogError(message) ==
  /\ CountOf(errorCounts, generateErrorKey(analyzeError(message)))
       < (IF analyzeError(message).severity = "high" THEN MaxErrors ELSE MaxOther)
  /\ LET analysis == analyzeError(message)
         updated == updateCircuitBreaker(breakers, analysis, nowMs)
         errorKey == generateErrorKey(analysis)
         checked == getCircuitBreakerStatus(updated, analysis.category, nowMs)
     IN /\ breakers' = checked.breakers
        /\ errorCounts' = Put(errorCounts, errorKey, CountOf(errorCounts, errorKey) + 1)
        /\ inflight' = inflight \cup {analysis}
        /\ openedAt' = IF /\ BreakerOf(breakers, analysis.category).state # "open"
                          /\ updated[analysis.category].state = "open"
                       THEN Put(openedAt, analysis.category, nowMs)
                       ELSE openedAt
  /\ UNCHANGED <<autoFixAttempts, lastFix>>
  /\ UNCHANGED <<storeVars, ctxVars, botVars, procVars, apiVars, backupVars, llmVars, chatVars>>

\* logError when ensureLogDir() fails: console only, returns null
LogErrorNoDir(message) ==
  /\ LET analysis == analyzeError(message)
     IN lastFix' = [category |-> analysis.category, should |-> FALSE, run |-> FALSE,
                    breaker |-> BreakerOf(breakers, analysis.category).state]
  /\ UNCHANGED <<breakers, errorCounts, inflight, autoFixAttempts, openedAt>>
  /\ UNCHANGED <<storeVars, ctxVars, botVars, procVars, apiVars, backupVars, llmVars, chatVars>>

\* logError after saveToFile, for one of the calls that hold this analysis
\* (more: others remain): shouldTriggerAutoFix and triggerAutoFix, or the
\* catch block when the file could not be written. A fix key without an
\* attempt reads as time 0, always long ago.
SaveDone(analysis, ok, more) ==
  /\ analysis \in inflight
  /\ inflight' = IF more THEN inflight ELSE inflight \ {analysis}
  /\ LET
         should == ok /\ shouldTriggerAutoFix(breakers, errorCounts, analysis)
         fixKey == <<analysis.category, analysis.errorType>>
         run == /\ should
                /\ \/ fixKey \notin DOMAIN autoFixAttempts
                   \/ nowMs - autoFixAttempts[fixKey] >= AUTOFIX_INTERVAL
     IN /\ autoFixAttempts' = IF run THEN Put(autoFixAttempts, fixKey, nowMs)
                              ELSE autoFixAttempts
        /\ lastFix' = IF ok
                       THEN [category |-> analysis.category, should |-> should,
                             run |-> run,
                             breaker |-> BreakerOf(breakers, analysis.category).state]
                       ELSE lastFix
  /\ UNCHANGED <<breakers, errorCounts, openedAt>>
  /\ UNCHANGED <<storeVars, ctxVars, botVars, procVars, apiVars, backupVars, llmVars, chatVars>>

BreakerDeltas == {1, BREAKER_TIMEOUT}

\* time passes while a breaker is open, the only state in which the breaker
\* compares times
BreakerWait(d) ==
  /\ \E category \in DOMAIN breakers : breakers[category].state = "open"
  /\ Advance(d)

InitBreaker ==
  /\ StoreAtRest /\ file = NoFile
  /\ CtxAtRest
  /\ BotAtRest

NextBreaker ==
  \/ \E message \in ErrorInputs : LogError(message)
  \/ \E message \in ErrorInputs : LogErrorNoDir(message)
  \/ \E analysis \in inflight, ok, more \in BOOLEAN : SaveDone(analysis, ok, more)
  \/ \E d \in BreakerDeltas : BreakerWait(d)

SpecBreaker == InitBreaker /\ [][NextBreaker]_vars

\* C30: the breaker of a category changes state only from closed to open,
\* when its count of high-severity errors reaches 5, and from open to
\* half-open, at the first status check more than 5 minutes after it opened,
\* with the count back at 0; a closed breaker whose count reaches 5 opens; no
\* auto-fix is triggered for a category whose breaker is open; a half-open
\* breaker stays half-open whatever errors follow.
C30_BreakerTransitions ==
  [][\A category \in Categories :
       LET before == BreakerOf(breakers, category)
           after == BreakerOf(breakers', category)
           logged == \E message \in ErrorInputs :
                       /\ LogError(message)
                       /\ analyzeError(message).category = category
       IN /\ after.state # before.state =>
               \/ /\ before.state = "closed" /\ after.state = "open"
                  /\ before.failureCount = BREAKER_THRESHOLD - 1
                  /\ after.failureCount = BREAKER_THRESHOLD
                  /\ \E message \in ErrorInputs :
                       /\ LogError(message)
                       /\ analyzeError(message) =
                            [errorType |-> "Error", message |-> message,
                             category |-> category, severity |-> "high"]
               \/ /\ before.state = "open" /\ after.state = "half-open"
                  /\ logged
                  /\ nowMs > openedAt[category] + BREAKER_TIMEOUT
                  /\ after.failureCount = 0
          /\ (before.state = "closed" /\ after.failureCount >= BREAKER_THRESHOLD)
               => after.state = "open"
          /\ (/\ logged
              /\ before.state = "open"
              /\ nowMs > openedAt[category] + BREAKER_TIMEOUT)
               => after.state = "half-open"
          /\ (/\ \E analysis \in inflight, more \in BOOLEAN : SaveDone(analysis, TRUE, more)
              /\ lastFix'.category = category
              /\ before.state = "open")
               => ~lastFix'.should
          /\ before.state = "half-open" => after.state = "half-open"]_vars

\* a breaker that opened, became half-open and has counted 5 high-severity
\* errors since
C30_Witness ==
  \E category \in DOMAIN breakers :
    /\ breakers[category].state = "half-open"
    /\ breakers[category].failureCount >= BREAKER_THRESHOLD

====
